---- MODULE Spec2Model ----
(***************************************************************************)
(* Model of the CookieBlock consent crawler: the crawl loop of             *)
(* run_scraper.main, the shared state of BaseScraper and the three         *)
(* scrape_website implementations (Cookiebot, OneTrust, Termly).           *)
(*                                                                         *)
(* A fetched document is never stored: each step of an extractor draws the *)
(* part of the document it reads (a bucket array, a ruleset, a category    *)
(* key) when it reads it.  URLs are numbers.                                *)
(***************************************************************************)
EXTENDS Integers, Sequences, FiniteSets, TLC

\* ------------------------------------------------------------------ bounds
MaxEntries == 1
MaxRulesets == 2
MaxCalls == 4
MaxWords == 2
MaxBody == 6

\* --------------------------------------------------------- outcome model
CrawlState ==
    {"SUCCESS", "CONN_FAILED", "HTTP_ERROR", "PARSE_ERROR", "CMP_NOT_FOUND",
     "BOT_DETECTION", "MALFORMED_URL", "SSL_ERROR", "LIBRARY_ERROR",
     "REGION_BLOCK", "MALFORM_RESP", "NO_COOKIES", "JSON_DECODE_ERROR", "UNKNOWN"}

CookieCategory ==
    {"UNKNOWN", "ESSENTIAL", "FUNCTIONAL", "ANALYTICAL", "ADVERTISING", "UNCLASSIFIED"}

NoneVal == "None"

\* The URLs of a run.
Sites == {1, 2}

VARIABLES
    \* BaseScraper
    webdriver, crawl_log, failed_urls, status_counts,
    database_cookie_data, cookie_labels, db_rows,
    \* run_scraper.main
    cmp, sites, total, comp_succ, comp_fail, mpc, url, uncrawled_urls,
    \* the scrape_website call in progress
    pc, ret, cookie_count, idx, cbid, doc, rs_ids, v1, v2,
    \* history of the call in progress
    upd_calls, recorded, data_at_call, labels_at_call, step_failed, b_attempted,
    doc_fetch, walked, steps,
    \* category_lookup_en and collect_cookie_dat called on their own
    cat_name_in, cat_out, calls,
    \* a function of the scraper called on its own: its inputs and its result
    call_in, call_out

stats_vars == <<crawl_log, failed_urls, status_counts>>
coll_vars == <<database_cookie_data, cookie_labels>>
scraper_vars == <<webdriver, stats_vars, coll_vars, db_rows>>
main_vars == <<cmp, sites, total, comp_succ, comp_fail, mpc, url, uncrawled_urls>>
local_vars == <<cookie_count, idx, cbid, doc, rs_ids, v1>>
call_frame == <<ret, stats_vars, upd_calls, recorded, v2>>
call_vars == <<pc, ret, local_vars, v2>>
hist_vars ==
    <<upd_calls, recorded, data_at_call, labels_at_call, step_failed, b_attempted, doc_fetch,
      walked, steps>>
lookup_vars == <<cat_name_in, cat_out, calls, call_in, call_out>>
vars == <<scraper_vars, main_vars, call_vars, hist_vars, lookup_vars>>

\* What no step of an extractor changes.
fetch_frame == <<webdriver, db_rows, main_vars, data_at_call, labels_at_call, lookup_vars>>

\* doc_fetch is the outcome of the failed fetch of a CMP data document that
\* ended the call; a step that fetches no such document leaves it alone.
\* walked holds the tuples of the bucket arrays read so far, each with its
\* bucket's name.
\* steps holds the steps of the Termly extractor executed so far, each with
\* what it ended with.
step_frame == <<fetch_frame, doc_fetch, walked, steps>>

\* --------------------------------------------------- page access (inputs)
\* One HTTP GET as the requests library reports it: a response with a status
\* code, or an exception.
Response(code) == [status |-> code, exc |-> "none"]
Failure(e) == [status |-> 0, exc |-> e]

StatusCodes == 100..599

\* The exception classes of requests named in the except clauses, and three
\* that no clause names: InvalidSchema (a scheme no adapter serves, such as
\* "htp://"), InvalidURL, and any other exception.
RequestExceptions ==
    {"HTTPError", "SSLError", "MissingSchema", "URLRequired", "ConnectionError",
     "ProxyError", "TooManyRedirects", "Timeout", "InvalidSchema", "InvalidURL", "Other"}

HttpResults ==
    {Response(c) : c \in StatusCodes} \cup {Failure(e) : e \in RequestExceptions}

\* The results the crawl loop is explored with.
CrawlHttpResults == {Response(200), Response(404), Failure("ConnectionError")}

static_get_request(h) ==
    IF h.exc = "none"
    THEN IF h.status = 525
         THEN [resp |-> h, state |-> "SSL_ERROR", report |-> "Error Code: 525"]
         ELSE IF h.status >= 400
              THEN [resp |-> h, state |-> "HTTP_ERROR", report |-> "Error Status Code"]
              ELSE [resp |-> h, state |-> "SUCCESS", report |-> "status_code"]
    ELSE IF h.exc = "HTTPError"
         THEN [resp |-> NoneVal, state |-> "HTTP_ERROR", report |-> "HTTP Error Exception"]
    ELSE IF h.exc = "SSLError"
         THEN [resp |-> NoneVal, state |-> "SSL_ERROR", report |-> "SSL Certificate issue"]
    ELSE IF h.exc \in {"URLRequired", "MissingSchema"}
         THEN [resp |-> NoneVal, state |-> "MALFORMED_URL", report |-> "Possibly malformed URL"]
    ELSE IF h.exc \in {"ConnectionError", "ProxyError", "TooManyRedirects", "Timeout"}
         THEN [resp |-> NoneVal, state |-> "CONN_FAILED", report |-> "Connection failed"]
    ELSE [resp |-> NoneVal, state |-> "UNKNOWN", report |-> "Unknown Error"]

\* One navigation of the webdriver as selenium reports it: webdriver.get raises
\* or returns, and after it returned a native dialog is open or not.
\* switch_to.alert is a property: with no dialog open reading it raises
\* NoAlertPresentException, with a dialog open it yields the Alert object,
\* which the code then calls, and Python raises TypeError.
NavResults ==
    {"ok", "ok, alert open", "TimeoutException", "InvalidArgumentException",
     "InsecureCertificateException", "WebDriverException: Reached error page",
     "WebDriverException"}

CrawlNavResults ==
    {"ok", "ok, alert open", "TimeoutException", "WebDriverException: Reached error page"}

\* state "raise": an exception leaves driver_get.
driver_get(nav) ==
    IF nav = "ok" THEN [state |-> "SUCCESS", report |-> NoneVal]
    ELSE IF nav = "ok, alert open" THEN [state |-> "raise", report |-> "TypeError"]
    ELSE IF nav = "TimeoutException"
         THEN [state |-> "SUCCESS", report |-> "TimeoutException"]
    ELSE IF nav = "InvalidArgumentException"
         THEN [state |-> "MALFORMED_URL", report |-> "InvalidArgumentException"]
    ELSE IF nav = "InsecureCertificateException"
         THEN [state |-> "SSL_ERROR", report |-> "InsecureCertificateException"]
    ELSE IF nav = "WebDriverException: Reached error page"
         THEN [state |-> "CONN_FAILED", report |-> "Reached error page"]
    ELSE [state |-> "UNKNOWN", report |-> "WebDriverException"]

\* ------------------------------------------------------- collected records
\* cookie_labels is a dict: a function whose domain is the set of its keys.
InList(x, s) == \E i \in 1..Len(s) : s[i] = x

\* collect_cookie_dat with the rows merged by identity as well.
collect_cookie_dat_merging(st, site_url, name, domain, path, cat_name, cat_id, purpose, type) ==
    LET cookie_ident == <<name, domain, path>> IN
    [labels |->
        IF cookie_ident \in DOMAIN st.labels
        THEN IF ~InList(cat_name, st.labels[cookie_ident])
             THEN [st.labels EXCEPT ![cookie_ident] = Append(@, cat_name)]
             ELSE st.labels
        ELSE (cookie_ident :> <<cat_name>>) @@ st.labels,
     data |->
        IF cookie_ident \in DOMAIN st.labels
        THEN st.data
        ELSE Append(st.data,
                    <<site_url, name, domain, path, cat_id, cat_name, purpose, type>>)]

\* collect_cookie_dat without the test `cat_name not in existing_categories`.
collect_cookie_dat_appending(st, site_url, name, domain, path, cat_name, cat_id, purpose, type) ==
    LET cookie_ident == <<name, domain, path>> IN
    [labels |->
        IF cookie_ident \in DOMAIN st.labels
        THEN [st.labels EXCEPT ![cookie_ident] = Append(@, cat_name)]
        ELSE (cookie_ident :> <<cat_name>>) @@ st.labels,
     data |-> Append(st.data,
                     <<site_url, name, domain, path, cat_id, cat_name, purpose, type>>)]

\* The two collections as one value, st = [labels, data], so that a walk can
\* thread them through several calls.
collect_cookie_dat(st, site_url, name, domain, path, cat_name, cat_id, purpose, type) ==
    LET cookie_ident == <<name, domain, path>> IN
    [labels |->
        IF cookie_ident \in DOMAIN st.labels
        THEN IF ~InList(cat_name, st.labels[cookie_ident])
             THEN [st.labels EXCEPT ![cookie_ident] = Append(@, cat_name)]
             ELSE st.labels
        ELSE (cookie_ident :> <<cat_name>>) @@ st.labels,
     data |-> Append(st.data,
                     <<site_url, name, domain, path, cat_id, cat_name, purpose, type>>)]

Collected == [labels |-> cookie_labels, data |-> database_cookie_data]

SetCollected(st) ==
    /\ cookie_labels' = st.labels
    /\ database_cookie_data' = st.data

\* ---------------------------------------------------------- crawl statistics
\* update_crawl_stats with every URL appended to the failed-URL list.
update_crawl_stats_all_failed(u, state, report) ==
    /\ status_counts' = [status_counts EXCEPT ![state] = @ + 1]
    /\ crawl_log' = IF report # NoneVal
                    THEN (u :> <<state, report>>) @@ crawl_log
                    ELSE crawl_log
    /\ failed_urls' = Append(failed_urls, u)
    /\ upd_calls' = upd_calls + 1
    /\ recorded' = <<state, report>>

update_crawl_stats(u, state, report) ==
    /\ status_counts' = [status_counts EXCEPT ![state] = @ + 1]
    /\ crawl_log' = IF report # NoneVal
                    THEN (u :> <<state, report>>) @@ crawl_log
                    ELSE crawl_log
    /\ failed_urls' = IF state # "SUCCESS" THEN Append(failed_urls, u) ELSE failed_urls
    /\ upd_calls' = upd_calls + 1
    /\ recorded' = <<state, report>>

\* scrape_website records (state, report) and returns r.
Return(state, report, r) ==
    /\ update_crawl_stats(url, state, report)
    /\ pc' = "returned"
    /\ ret' = r
    /\ UNCHANGED <<step_failed, v2>>

\* A step failed: the failure is recorded and scrape_website returns False.
Fail(state, report) ==
    /\ update_crawl_stats(url, state, report)
    /\ pc' = "returned"
    /\ ret' = FALSE
    /\ step_failed' = TRUE
    /\ UNCHANGED v2

\* An exception leaves scrape_website: nothing is recorded.
Raise ==
    /\ pc' = "raised"
    /\ UNCHANGED <<call_frame, step_failed>>

\* The call goes on with its next step.
Goto(p) ==
    /\ pc' = p
    /\ UNCHANGED <<call_frame, step_failed>>

\* ------------------------------------------------------ category lookup
\* A category name is a sequence of characters. The patterns are compiled with
\* re.IGNORECASE: the search runs on the lower-cased name.
ToLower ==
    [c \in {"A", "B", "C", "D", "E", "F", "G", "H", "I", "J", "K", "L", "M", "N", "O", "P", "Q", "R", "S", "T", "U", "V", "W", "X", "Y", "Z"} |->
        CASE c = "A" -> "a"
          [] c = "B" -> "b"
          [] c = "C" -> "c"
          [] c = "D" -> "d"
          [] c = "E" -> "e"
          [] c = "F" -> "f"
          [] c = "G" -> "g"
          [] c = "H" -> "h"
          [] c = "I" -> "i"
          [] c = "J" -> "j"
          [] c = "K" -> "k"
          [] c = "L" -> "l"
          [] c = "M" -> "m"
          [] c = "N" -> "n"
          [] c = "O" -> "o"
          [] c = "P" -> "p"
          [] c = "Q" -> "q"
          [] c = "R" -> "r"
          [] c = "S" -> "s"
          [] c = "T" -> "t"
          [] c = "U" -> "u"
          [] c = "V" -> "v"
          [] c = "W" -> "w"
          [] c = "X" -> "x"
          [] c = "Y" -> "y"
          [] c = "Z" -> "z"]

Lower(c) == IF c \in DOMAIN ToLower THEN ToLower[c] ELSE c

LowerSeq(s) == [i \in 1..Len(s) |-> Lower(s[i])]

\* The literal p occurs in s at position i.
MatchAt(p, s, i) ==
    /\ i >= 1
    /\ i + Len(p) - 1 <= Len(s)
    /\ \A j \in 1..Len(p) : s[i + j - 1] = p[j]

\* re.search of one literal alternative.
Search(p, s) == \E i \in 1..Len(s) : MatchAt(p, s, i)

SearchAny(P, s) == \E p \in P : Search(p, LowerSeq(s))

\* (necessary|essential|required)
necessary_words ==
    {<<"n", "e", "c", "e", "s", "s", "a", "r", "y">>,
     <<"e", "s", "s", "e", "n", "t", "i", "a", "l">>,
     <<"r", "e", "q", "u", "i", "r", "e", "d">>}

\* (measurement|analytic|anonym|research|performance)
analytical_words ==
    {<<"m", "e", "a", "s", "u", "r", "e", "m", "e", "n", "t">>,
     <<"a", "n", "a", "l", "y", "t", "i", "c">>,
     <<"a", "n", "o", "n", "y", "m">>,
     <<"r", "e", "s", "e", "a", "r", "c", "h">>,
     <<"p", "e", "r", "f", "o", "r", "m", "a", "n", "c", "e">>}

\* (functional|preference|security|secure)
functional_words ==
    {<<"f", "u", "n", "c", "t", "i", "o", "n", "a", "l">>,
     <<"p", "r", "e", "f", "e", "r", "e", "n", "c", "e">>,
     <<"s", "e", "c", "u", "r", "i", "t", "y">>,
     <<"s", "e", "c", "u", "r", "e">>}

\* the literal alternatives of advertise_pattern
advertise_words ==
    {<<"a", "d", " ", "s", "e", "l", "e", "c", "t", "i", "o", "n">>,
     <<"a", "d", "v", "e", "r", "t", "i", "s", "i", "n", "g">>,
     <<"a", "d", "v", "e", "r", "t", "i", "s", "e">>,
     <<"t", "a", "r", "g", "e", "t", "i", "n", "g">>,
     <<"s", "a", "l", "e", " ", "o", "f", " ", "p", "e", "r", "s", "o", "n", "a", "l", " ", "d", "a", "t", "a">>,
     <<"m", "a", "r", "k", "e", "t", "i", "n", "g">>,
     <<"t", "r", "a", "c", "k", "i", "n", "g">>,
     <<"t", "r", "a", "c", "k", "e", "r">>,
     <<"f", "i", "n", "g", "e", "r", "p", "r", "i", "n", "t">>}

\* (uncategori[zs]e|unknown)
uncat_words ==
    {<<"u", "n", "c", "a", "t", "e", "g", "o", "r", "i", "z", "e">>,
     <<"u", "n", "c", "a", "t", "e", "g", "o", "r", "i", "s", "e">>,
     <<"u", "n", "k", "n", "o", "w", "n">>}

necessary_pattern(s) == SearchAny(necessary_words, s)

analytical_pattern(s) == SearchAny(analytical_words, s)

functional_pattern(s) == SearchAny(functional_words, s)

\* ^ads.* | .*\s+ads.* : "ads" at the start of the name or right after a
\* whitespace character.
ads_alternatives(s) ==
    LET l == LowerSeq(s) IN
    \/ MatchAt(<<"a", "d", "s">>, l, 1)
    \/ \E i \in 2..Len(l) : l[i - 1] = " " /\ MatchAt(<<"a", "d", "s">>, l, i)

advertise_pattern(s) == ads_alternatives(s) \/ SearchAny(advertise_words, s)

uncat_pattern(s) == SearchAny(uncat_words, s)

category_lookup_en_none(cat_name) ==
    IF advertise_pattern(cat_name) THEN "ADVERTISING"
    ELSE IF necessary_pattern(cat_name) THEN "ESSENTIAL"
    ELSE IF analytical_pattern(cat_name) THEN "ANALYTICAL"
    ELSE IF functional_pattern(cat_name) THEN "FUNCTIONAL"
    ELSE IF uncat_pattern(cat_name) THEN "UNCLASSIFIED"
    ELSE NoneVal

category_lookup_en_necessary_first(cat_name) ==
    IF necessary_pattern(cat_name) THEN "ESSENTIAL"
    ELSE IF advertise_pattern(cat_name) THEN "ADVERTISING"
    ELSE IF analytical_pattern(cat_name) THEN "ANALYTICAL"
    ELSE IF functional_pattern(cat_name) THEN "FUNCTIONAL"
    ELSE IF uncat_pattern(cat_name) THEN "UNCLASSIFIED"
    ELSE "UNKNOWN"

category_lookup_en(cat_name) ==
    IF advertise_pattern(cat_name) THEN "ADVERTISING"
    ELSE IF necessary_pattern(cat_name) THEN "ESSENTIAL"
    ELSE IF analytical_pattern(cat_name) THEN "ANALYTICAL"
    ELSE IF functional_pattern(cat_name) THEN "FUNCTIONAL"
    ELSE IF uncat_pattern(cat_name) THEN "UNCLASSIFIED"
    ELSE "UNKNOWN"

\* The category names the lookup is explored with: up to MaxWords words of
\* Vocabulary, separated by single spaces.
Vocabulary ==
    {<<"a", "d", "s">>,
     <<"l", "o", "a", "d", "s">>,
     <<"T", "a", "r", "g", "e", "t", "i", "n", "g">>,
     <<"N", "e", "c", "e", "s", "s", "a", "r", "y">>,
     <<"A", "n", "a", "l", "y", "t", "i", "c", "s">>,
     <<"S", "e", "c", "u", "r", "i", "t", "y">>,
     <<"U", "n", "k", "n", "o", "w", "n">>,
     <<"C", "o", "o", "k", "i", "e", "s">>,
     <<"A", "d">>,
     <<"S", "e", "l", "e", "c", "t", "i", "o", "n">>}

RECURSIVE JoinWords(_)
JoinWords(ws) ==
    IF ws = <<>> THEN <<>>
    ELSE IF Len(ws) = 1 THEN ws[1]
    ELSE ws[1] \o <<" ">> \o JoinWords(Tail(ws))

SeqsUpTo(S, n) == UNION {[1..k -> S] : k \in 0..n}

CategoryNames == {JoinWords(ws) : ws \in SeqsUpTo(Vocabulary, MaxWords)}

\* ------------------------------------------------------ Cookiebot extractor
cookiebot_catnames == <<"Necessary", "Preference", "Statistics", "Advertising", "Unclassified">>

name_to_cat ==
    [n \in {"Necessary", "Preference", "Statistics", "Advertising", "Unclassified"} |->
        CASE n = "Necessary" -> "ESSENTIAL"
          [] n = "Preference" -> "FUNCTIONAL"
          [] n = "Statistics" -> "ANALYTICAL"
          [] n = "Advertising" -> "ADVERTISING"
          [] n = "Unclassified" -> "UNCLASSIFIED"]

\* The cookie names and hosts the fetched documents are explored with.
CookieNames == {"n1", "n2"}

\* The cookie names the documents of the crawl loop are explored with.
CrawlCookieNames == {"n1"}

\* What the wait for a script tag with data-cbid ends with: the attribute value
\* (a UUID, or a UUID followed by other characters, which uuid_pattern.match
\* accepts as well), or an exception.
WaitResults ==
    {"uuid", "uuid(", "TimeoutException", "StaleElementReferenceException",
     "WebDriverException"}

\* try_selenium_approach with the wait's timeout reported at once, without the
\* search for the URL patterns.
try_selenium_approach_no_fallback(nav, wait, variant_2, variant_3) ==
    LET got == driver_get(nav) IN
    IF got.state # "SUCCESS"
    THEN [cbid |-> "", state |-> got.state, report |-> got.report, fallback |-> FALSE]
    ELSE IF wait \in {"uuid", "uuid("}
         THEN [cbid |-> wait, state |-> "SUCCESS", report |-> "OK", fallback |-> FALSE]
    ELSE IF wait \in {"TimeoutException", "StaleElementReferenceException"}
         THEN [cbid |-> "", state |-> "PARSE_ERROR",
               report |-> "All attempts to find cookiebot cbid failed.", fallback |-> FALSE]
    ELSE [cbid |-> "", state |-> "UNKNOWN", report |-> "Unexpected error", fallback |-> FALSE]

\* fallback: the page source was searched for variant_2_pattern and
\* variant_3_pattern.
try_selenium_approach(nav, wait, variant_2, variant_3) ==
    LET got == driver_get(nav) IN
    IF got.state # "SUCCESS"
    THEN [cbid |-> "", state |-> got.state, report |-> got.report, fallback |-> FALSE]
    ELSE IF wait \in {"uuid", "uuid("}
         THEN [cbid |-> wait, state |-> "SUCCESS", report |-> "OK", fallback |-> FALSE]
    ELSE IF wait \in {"TimeoutException", "StaleElementReferenceException"}
         THEN IF variant_2 \/ variant_3
              THEN [cbid |-> "uuid", state |-> "SUCCESS", report |-> "OK", fallback |-> TRUE]
              ELSE [cbid |-> "", state |-> "PARSE_ERROR",
                    report |-> "All attempts to find cookiebot cbid failed.",
                    fallback |-> TRUE]
    ELSE [cbid |-> "", state |-> "UNKNOWN", report |-> "Unexpected error", fallback |-> FALSE]

\* re.compile of a pattern built from the cbid raises when the cbid holds an
\* unbalanced regex character.
try_find_correct_referrer(id, found) ==
    IF id = "uuid(" THEN "raise"
    ELSE IF found THEN "new_referer" ELSE "fallback"

\* A tuple of a cookieTable array: name, domain, purpose, expiry, type name,
\* type id, regex, destination; on a short tuple c[5] raises.
CookiebotTuples ==
    {<<n, "x.com", "purpose", "session", "HTTP", "1", "", "dest">> : n \in CrawlCookieNames}
    \cup {<<n, "x.com">> : n \in CrawlCookieNames}

\* The first GET request, to see if the site is reachable.
CB_Reach ==
    /\ cmp = "cookiebot" /\ pc = "start"
    /\ \E h \in CrawlHttpResults :
          LET r == static_get_request(h) IN
          IF r.state # "SUCCESS" THEN Fail(r.state, r.report) ELSE Goto("cb_cbid")
    /\ UNCHANGED <<step_frame, coll_vars, local_vars, b_attempted>>

CB_RetrieveCbid ==
    /\ pc = "cb_cbid"
    /\ \E nav \in CrawlNavResults, wait \in WaitResults, variant_2 \in BOOLEAN, variant_3 \in BOOLEAN :
          LET r == try_selenium_approach(nav, wait, variant_2, variant_3) IN
          IF r.state = "raise" THEN Raise /\ UNCHANGED cbid
          ELSE IF r.state # "SUCCESS"
          THEN Fail(r.state, r.report) /\ UNCHANGED cbid
          ELSE Goto("cb_referer") /\ cbid' = r.cbid
    /\ UNCHANGED <<step_frame, coll_vars, cookie_count, idx, doc, rs_ids, v1, b_attempted>>

CB_Referer ==
    /\ pc = "cb_referer"
    /\ \E found \in BOOLEAN :
          IF try_find_correct_referrer(cbid, found) = "raise"
          THEN Raise
          ELSE Goto("cb_fetch")
    /\ UNCHANGED <<step_frame, coll_vars, local_vars, b_attempted>>

\* The cc.js bodies the fetch is explored with, and the structural facts of
\* each: a body of whitespace holds no marker.
JsContents == {"script", "out_of_region", "domain_warning", "both_markers", "whitespace"}

BodyHeads ==
    [js \in JsContents |->
        [outOfRegion |-> js \in {"out_of_region", "both_markers"},
         domainWarning |-> js \in {"domain_warning", "both_markers"},
         empty |-> js = "whitespace"]]

\* The structural checks with the domain warning tested first.
structural_checks_domain_first(b) ==
    IF b.domainWarning
    THEN [state |-> "LIBRARY_ERROR", report |-> "not a valid domain"]
    ELSE IF b.outOfRegion
    THEN [state |-> "REGION_BLOCK", report |-> "Received an out-of-region response"]
    ELSE IF b.empty
    THEN [state |-> "LIBRARY_ERROR", report |-> "Empty response"]
    ELSE [state |-> "SUCCESS", report |-> NoneVal]

\* The outcome of the structural checks on cc.js, "SUCCESS" when they pass.
structural_checks(b) ==
    IF b.outOfRegion
    THEN [state |-> "REGION_BLOCK", report |-> "Received an out-of-region response"]
    ELSE IF b.domainWarning
    THEN [state |-> "LIBRARY_ERROR", report |-> "not a valid domain"]
    ELSE IF b.empty
    THEN [state |-> "LIBRARY_ERROR", report |-> "Empty response"]
    ELSE [state |-> "SUCCESS", report |-> NoneVal]

\* doc holds js_contents once the fetch delivered it.
CB_Fetch ==
    /\ pc = "cb_fetch"
    /\ \E h \in CrawlHttpResults, js \in JsContents :
          LET r == static_get_request(h)
              c == structural_checks(BodyHeads[js]) IN
          /\ doc_fetch' = IF r.state # "SUCCESS" THEN r.state ELSE doc_fetch
          /\ doc' = IF r.state = "SUCCESS" THEN js ELSE doc
          /\ IF r.state # "SUCCESS" THEN Fail("LIBRARY_ERROR", r.report)
             ELSE IF c.state # "SUCCESS" THEN Fail(c.state, c.report)
             ELSE Goto("cb_parse")
    /\ UNCHANGED <<fetch_frame, walked, steps, coll_vars, cookie_count, idx, cbid, rs_ids, v1,
                   b_attempted>>

\* The rows of the bucket loop with every row filed under Unclassified.
RECURSIVE cb_collect_unclassified(_, _, _, _, _)
cb_collect_unclassified(st, cookies, site_url, catname, cat_id) ==
    IF cookies = <<>> THEN [st |-> st, raised |-> FALSE]
    ELSE LET c == Head(cookies) IN
         IF Len(c) < 6 THEN [st |-> st, raised |-> TRUE]
         ELSE cb_collect_unclassified(
                 collect_cookie_dat(st, site_url, c[1], c[2], "/", "Unclassified",
                                    "UNCLASSIFIED", c[3], c[6]),
                 Tail(cookies), site_url, catname, cat_id)

\* for c in cookies: collect_cookie_dat(...), until a tuple raises.
RECURSIVE cb_collect(_, _, _, _, _)
cb_collect(st, cookies, site_url, catname, cat_id) ==
    IF cookies = <<>> THEN [st |-> st, raised |-> FALSE]
    ELSE LET c == Head(cookies) IN
         IF Len(c) < 6 THEN [st |-> st, raised |-> TRUE]
         ELSE cb_collect(
                 collect_cookie_dat(st, site_url, c[1], c[2], "/", catname, cat_id, c[3], c[6]),
                 Tail(cookies), site_url, catname, cat_id)

\* One iteration of the loop over cookiebot_catnames: the bucket's array is
\* absent, does not evaluate, or evaluates to a list of tuples.
CB_Bucket ==
    /\ pc = "cb_parse" /\ idx <= Len(cookiebot_catnames)
    /\ LET catname == cookiebot_catnames[idx]
           cat_id == name_to_cat[catname] IN
       \/ /\ Goto("cb_parse")
          /\ idx' = idx + 1
          /\ UNCHANGED <<cookie_count, coll_vars, walked>>
       \/ /\ Fail("MALFORM_RESP", "Failed to extract cookie data")
          /\ UNCHANGED <<idx, cookie_count, coll_vars, walked>>
       \/ \E cookies \in SeqsUpTo(CookiebotTuples, MaxEntries - cookie_count) :
             LET w == cb_collect(Collected, cookies, url, catname, cat_id) IN
             /\ cookie_count' = cookie_count + Len(cookies)
             /\ walked' = walked \o [i \in 1..Len(cookies) |-> <<catname, cookies[i]>>]
             /\ SetCollected(w.st)
             /\ IF w.raised
                THEN Fail("MALFORM_RESP", "Failed to extract cookie data") /\ UNCHANGED idx
                ELSE Goto("cb_parse") /\ idx' = idx + 1
    /\ UNCHANGED <<fetch_frame, doc_fetch, steps, cbid, doc, rs_ids, v1, b_attempted>>

\* The bucket loop's result without the test for zero cookies.
cookiebot_result_untested(count) ==
    [state |-> "SUCCESS", report |-> "OK", ret |-> TRUE]

\* The state and return value after the bucket loop.
cookiebot_result(count) ==
    IF count = 0
    THEN [state |-> "NO_COOKIES", report |-> "No cookies found", ret |-> FALSE]
    ELSE [state |-> "SUCCESS", report |-> "OK", ret |-> TRUE]

CB_Finish ==
    /\ pc = "cb_parse" /\ idx > Len(cookiebot_catnames)
    /\ LET r == cookiebot_result(cookie_count) IN Return(r.state, r.report, r.ret)
    /\ UNCHANGED <<step_frame, coll_vars, local_vars, b_attempted>>

\* --------------------------------------------------------- Termly extractor
termly_name_to_cat ==
    [n \in {"essential", "performance", "analytics", "advertising",
            "social_networking", "unclassified"} |->
        CASE n = "essential" -> "ESSENTIAL"
          [] n = "performance" -> "FUNCTIONAL"
          [] n = "analytics" -> "ANALYTICAL"
          [] n = "advertising" -> "ADVERTISING"
          [] n = "social_networking" -> "UNKNOWN"
          [] n = "unclassified" -> "UNCLASSIFIED"]

\* The keys a `cookies` map is explored with, in the order the walk meets them:
\* the six known category keys and one unknown key.
TermlyKeys ==
    <<"essential", "other_key", "performance", "analytics", "advertising",
      "social_networking", "unclassified">>

\* An entry of a category array: a dict with optional keys (the second one
\* without a name, with a `category` of its own and with an attribute that is
\* not in known_cookie_attributes), or a value that is no dict (cookie.keys()
\* raises).
TermlyEntries ==
    {[name |-> n, domain |-> "x.com"] : n \in CrawlCookieNames}
    \cup {[domain |-> "x.com", category |-> "essential", en_us |-> "text", colour |-> "red"]}
    \cup {[not_a_dict |-> TRUE]}

Get(cookie, k) == IF k \in DOMAIN cookie THEN cookie[k] ELSE NoneVal

\* The loop over the entries with an entry that has no name, or whose
\* `category` differs from its key, left out.
RECURSIVE termly_collect_strict(_, _, _, _, _, _)
termly_collect_strict(st, count, entry, site_url, catname, cat_id) ==
    IF entry = <<>> THEN [st |-> st, count |-> count, raised |-> FALSE]
    ELSE LET cookie == Head(entry) IN
         IF "not_a_dict" \in DOMAIN cookie
         THEN [st |-> st, count |-> count, raised |-> TRUE]
         ELSE IF "name" \notin DOMAIN cookie
                 \/ ("category" \in DOMAIN cookie /\ cookie.category # catname)
         THEN termly_collect_strict(st, count, Tail(entry), site_url, catname, cat_id)
         ELSE termly_collect_strict(
                 collect_cookie_dat(st, site_url, Get(cookie, "name"), Get(cookie, "domain"),
                                    "/", catname, cat_id, Get(cookie, "en_us"),
                                    Get(cookie, "tracker_type")),
                 count + 1, Tail(entry), site_url, catname, cat_id)

\* The loop over the entries with a `category` that differs from the key
\* treated as an error of the walk.
RECURSIVE termly_collect_mismatch_raises(_, _, _, _, _, _)
termly_collect_mismatch_raises(st, count, entry, site_url, catname, cat_id) ==
    IF entry = <<>> THEN [st |-> st, count |-> count, raised |-> FALSE]
    ELSE LET cookie == Head(entry) IN
         IF "not_a_dict" \in DOMAIN cookie
            \/ ("category" \in DOMAIN cookie /\ cookie.category # catname)
         THEN [st |-> st, count |-> count, raised |-> TRUE]
         ELSE termly_collect_mismatch_raises(
                 collect_cookie_dat(st, site_url, Get(cookie, "name"), Get(cookie, "domain"),
                                    "/", catname, cat_id, Get(cookie, "en_us"),
                                    Get(cookie, "tracker_type")),
                 count + 1, Tail(entry), site_url, catname, cat_id)

\* The entries the loop reads: those up to the first one that is no dict,
\* this one included.
RECURSIVE EntriesRead(_)
EntriesRead(entry) ==
    IF entry = <<>> THEN <<>>
    ELSE IF "not_a_dict" \in DOMAIN Head(entry) THEN <<Head(entry)>>
    ELSE <<Head(entry)>> \o EntriesRead(Tail(entry))

\* The loop over the entries of one known category key.
RECURSIVE termly_collect(_, _, _, _, _, _)
termly_collect(st, count, entry, site_url, catname, cat_id) ==
    IF entry = <<>> THEN [st |-> st, count |-> count, raised |-> FALSE]
    ELSE LET cookie == Head(entry) IN
         IF "not_a_dict" \in DOMAIN cookie
         THEN [st |-> st, count |-> count, raised |-> TRUE]
         ELSE termly_collect(
                 collect_cookie_dat(st, site_url, Get(cookie, "name"), Get(cookie, "domain"),
                                    "/", catname, cat_id, Get(cookie, "en_us"),
                                    Get(cookie, "tracker_type")),
                 count + 1, Tail(entry), site_url, catname, cat_id)

\* retrieve_termly_json, step 1: navigate and wait for the embed script's uuid.
TermlyWaitResults == {"uuid", "TimeoutException", "WebDriverException"}

\* The search for the embed id with a timeout reported as an unknown error.
termly_find_uuid_unknown(nav, wait) ==
    LET got == driver_get(nav) IN
    IF got.state # "SUCCESS" THEN [state |-> got.state, report |-> got.report]
    ELSE IF wait = "uuid" THEN [state |-> "SUCCESS", report |-> NoneVal]
    ELSE [state |-> "UNKNOWN", report |-> "Unexpected error while trying to retrieve"]

termly_find_uuid(nav, wait) ==
    LET got == driver_get(nav) IN
    IF got.state # "SUCCESS" THEN [state |-> got.state, report |-> got.report]
    ELSE IF wait = "uuid" THEN [state |-> "SUCCESS", report |-> NoneVal]
    ELSE IF wait = "TimeoutException"
    THEN [state |-> "CMP_NOT_FOUND", report |-> "Could not find Termly UUID"]
    ELSE [state |-> "UNKNOWN", report |-> "Unexpected error while trying to retrieve"]

T_Navigate ==
    /\ cmp = "termly" /\ pc = "start"
    /\ \E nav \in CrawlNavResults, wait \in TermlyWaitResults :
          LET r == termly_find_uuid(nav, wait)
              got == driver_get(nav) IN
          /\ steps' = IF got.state # "SUCCESS"
                      THEN <<<<"navigate", got.state>>>>
                      ELSE <<<<"navigate", "ok">>,
                             <<"find embed id", IF wait = "uuid" THEN "ok" ELSE wait>>>>
          /\ IF r.state = "raise" THEN Raise
             ELSE IF r.state # "SUCCESS" THEN Fail(r.state, r.report)
             ELSE Goto("t_policy")
    /\ UNCHANGED <<fetch_frame, doc_fetch, walked, coll_vars, local_vars, b_attempted>>

\* retrieve_termly_json, step 2: the policy JSON and its "Cookie Policy" document.
\* A decoded policy is a dict without `documents`, a dict whose documents hold
\* none named "Cookie Policy", one whose "Cookie Policy" document carries a
\* uuid (well-formed or not), or a value the scan raises on.
PolicyDocs ==
    {"undecodable", "no_documents", "no_cookie_policy", "bad_uuid", "cookie_policy",
     "not_a_dict"}

\* The policy scan with a missing second uuid let through.
termly_policy_unchecked(h, policy) ==
    LET r == static_get_request(h) IN
    IF r.state # "SUCCESS"
    THEN [state |-> r.state, report |-> "Failed to retrieve Termly policy JSON"]
    ELSE IF policy = "undecodable"
    THEN [state |-> "JSON_DECODE_ERROR", report |-> "Failed to decode Termly policy JSON"]
    ELSE IF policy = "not_a_dict"
    THEN [state |-> "UNKNOWN", report |-> "Unexpected error while trying to retrieve"]
    ELSE [state |-> "SUCCESS", report |-> NoneVal]

termly_policy(h, policy) ==
    LET r == static_get_request(h) IN
    IF r.state # "SUCCESS"
    THEN [state |-> r.state, report |-> "Failed to retrieve Termly policy JSON"]
    ELSE IF policy = "undecodable"
    THEN [state |-> "JSON_DECODE_ERROR", report |-> "Failed to decode Termly policy JSON"]
    ELSE IF policy = "not_a_dict"
    THEN [state |-> "UNKNOWN", report |-> "Unexpected error while trying to retrieve"]
    ELSE IF policy \in {"no_documents", "no_cookie_policy", "bad_uuid"}
    THEN [state |-> "PARSE_ERROR", report |-> "Failed to retrieve second UUID string"]
    ELSE [state |-> "SUCCESS", report |-> NoneVal]

\* doc holds the policy the fetch delivered, until the cookies JSON replaces it.
T_FetchPolicy ==
    /\ pc = "t_policy"
    /\ \E h \in CrawlHttpResults, policy \in PolicyDocs :
          LET r == termly_policy(h, policy) IN
          /\ doc' = IF static_get_request(h).state = "SUCCESS" THEN policy ELSE doc
          /\ doc_fetch' = IF static_get_request(h).state # "SUCCESS"
                          THEN static_get_request(h).state ELSE doc_fetch
          /\ steps' = Append(steps,
                             <<"fetch policy",
                               IF static_get_request(h).state # "SUCCESS" THEN "fetch failed"
                               ELSE IF policy = "cookie_policy" THEN "ok" ELSE policy>>)
          /\ IF r.state # "SUCCESS" THEN Fail(r.state, r.report) ELSE Goto("t_cookies")
    /\ UNCHANGED <<fetch_frame, walked, coll_vars, cookie_count, idx, cbid, rs_ids, v1,
                   b_attempted>>

\* retrieve_termly_json, step 3: the cookies JSON. A decoded payload is null (or
\* another scalar), a dict without `cookies`, a dict whose `cookies` is no dict,
\* or a dict with a `cookies` map.
CookiesDocs == {"undecodable", "null", "no_cookies_key", "cookies_not_a_dict", "cookies_map"}

termly_cookies(h, payload) ==
    LET r == static_get_request(h) IN
    IF r.state # "SUCCESS"
    THEN [state |-> r.state, report |-> "Failed to retrieve Termly cookies JSON"]
    ELSE IF payload = "undecodable"
    THEN [state |-> "JSON_DECODE_ERROR", report |-> "Failed to decode Termly cookies JSON"]
    ELSE [state |-> "SUCCESS", report |-> "Successfully retrieved Termly cookies JSON"]

T_FetchCookies ==
    /\ pc = "t_cookies"
    /\ \E h \in CrawlHttpResults, payload \in CookiesDocs :
          LET r == termly_cookies(h, payload) IN
          /\ doc_fetch' = IF static_get_request(h).state # "SUCCESS"
                          THEN static_get_request(h).state ELSE doc_fetch
          /\ doc' = IF static_get_request(h).state = "SUCCESS" THEN payload ELSE doc
          /\ steps' = Append(steps,
                             <<"fetch cookies",
                               IF static_get_request(h).state # "SUCCESS" THEN "fetch failed"
                               ELSE IF payload = "undecodable" THEN payload ELSE "ok">>)
          /\ IF r.state # "SUCCESS" THEN Fail(r.state, r.report) ELSE Goto("t_parse")
    /\ UNCHANGED <<fetch_frame, walked, coll_vars, cookie_count, idx, cbid, rs_ids, v1,
                   b_attempted>>

\* parse_termly_cookie_json up to the walk: `"cookies" in cookie_dict` is
\* evaluated outside the try block.
T_ParseStart ==
    /\ pc = "t_parse"
    /\ IF doc = "null" THEN Raise
       ELSE IF doc = "no_cookies_key"
       THEN Fail("MALFORM_RESP", "No 'cookies' attribute in cookies JSON!")
       ELSE IF doc = "cookies_not_a_dict"
       THEN Fail("PARSE_ERROR", "Unexpected error while extracting Cookies from Termly Dict")
       ELSE Goto("t_walk")
    /\ steps' = Append(steps, <<"parse", "started">>)
    /\ UNCHANGED <<fetch_frame, doc_fetch, walked, coll_vars, local_vars, b_attempted>>

\* One iteration of the loop over cookie_dict["cookies"].items(): the next key
\* of the map is TermlyKeys[k]. walked gains the entries read under the key,
\* or the key alone when it is no known category.
T_Key ==
    /\ pc = "t_walk"
    /\ \E k \in idx..Len(TermlyKeys) :
          LET catname == TermlyKeys[k] IN
          /\ idx' = k + 1
          /\ IF catname \notin DOMAIN termly_name_to_cat
             THEN /\ Goto("t_walk")
                  /\ walked' = Append(walked, <<catname>>)
                  /\ UNCHANGED <<cookie_count, coll_vars>>
             ELSE \E entry \in SeqsUpTo(TermlyEntries, MaxEntries - cookie_count) :
                     LET w == termly_collect(Collected, cookie_count, entry, url, catname,
                                             termly_name_to_cat[catname]) IN
                     /\ cookie_count' = w.count
                     /\ walked' = walked \o [i \in 1..Len(EntriesRead(entry)) |->
                                                   <<catname, EntriesRead(entry)[i]>>]
                     /\ SetCollected(w.st)
                     /\ IF w.raised
                        THEN Fail("PARSE_ERROR",
                                  "Unexpected error while extracting Cookies from Termly Dict")
                        ELSE Goto("t_walk")
    /\ UNCHANGED <<fetch_frame, doc_fetch, steps, cbid, doc, rs_ids, v1, b_attempted>>

\* The walk's result with zero cookies reported like a missing `cookies` key.
termly_result_malformed(count) ==
    IF count = 0
    THEN [state |-> "MALFORM_RESP", report |-> "No cookies found in Termly JSON!!"]
    ELSE [state |-> "SUCCESS", report |-> "Number of Cookies extracted"]

\* The state after the walk.
termly_result(count) ==
    IF count = 0
    THEN [state |-> "NO_COOKIES", report |-> "No cookies found in Termly JSON!!"]
    ELSE [state |-> "SUCCESS", report |-> "Number of Cookies extracted"]

\* The map has no further key: parse_termly_cookie_json returns and
\* scrape_website records its state.
T_Finish ==
    /\ pc = "t_walk"
    /\ LET r == termly_result(cookie_count) IN Return(r.state, r.report, r.state = "SUCCESS")
    /\ UNCHANGED <<step_frame, coll_vars, local_vars, b_attempted>>

\* -------------------------------------------------------- OneTrust extractor
\* The group names the OneTrust documents are explored with.
OTGroupNames ==
    {<<"T", "a", "r", "g", "e", "t", "i", "n", "g", " ", "C", "o", "o", "k", "i", "e", "s">>,
     <<"S", "t", "r", "i", "c", "t", "l", "y", " ", "N", "e", "c", "e", "s", "s", "a", "r", "y">>}

\* cat_lookup = category_lookup_en
cat_lookup == [g \in OTGroupNames |-> category_lookup_en(g)]

\* A cookie entry together with the name of the group that owns it.
OTEntries ==
    {[GroupName |-> g, Name |-> n, Host |-> "x.com"] :
        g \in {<<"T", "a", "r", "g", "e", "t", "i", "n", "g", " ",
                 "C", "o", "o", "k", "i", "e", "s">>},
        n \in CrawlCookieNames}
    \cup {[GroupName |-> g, Name |-> n, Host |-> "x.com", description |-> "text"] :
             g \in {<<"S", "t", "r", "i", "c", "t", "l", "y", " ",
                      "N", "e", "c", "e", "s", "s", "a", "r", "y">>},
             n \in CrawlCookieNames}

\* The walk over the cookie entries with the description of an entry dropped.
RECURSIVE ot_collect_no_purpose(_, _, _)
ot_collect_no_purpose(st, entries, site_url) ==
    IF entries = <<>> THEN st
    ELSE LET c == Head(entries)
             cat_name == c.GroupName
             cat_id == cat_lookup[cat_name] IN
         ot_collect_no_purpose(
            collect_cookie_dat(st, site_url, c.Name, c.Host, "/", cat_name, cat_id,
                               NoneVal, NoneVal),
            Tail(entries), site_url)

\* The walk over the cookie entries of a document.
RECURSIVE ot_collect(_, _, _)
ot_collect(st, entries, site_url) ==
    IF entries = <<>> THEN st
    ELSE LET c == Head(entries)
             cat_name == c.GroupName
             cat_id == cat_lookup[cat_name] IN
         ot_collect(
            collect_cookie_dat(st, site_url, c.Name, c.Host, "/", cat_name, cat_id,
                               Get(c, "description"), NoneVal),
            Tail(entries), site_url)

\* What the scan of the script tags ends with; "WebDriverException" is raised
\* by implicitly_wait or find_elements_by_tag_name, outside the inner try.
ScanResults == {"found", "not_found", "Exception", "TimeoutException", "WebDriverException"}

variantA_try_retrieve_uuid(nav, scan) ==
    LET got == driver_get(nav) IN
    IF got.state # "SUCCESS" THEN [state |-> got.state, report |-> got.report]
    ELSE IF scan = "found"
    THEN [state |-> "SUCCESS", report |-> "Found data-domain-script id"]
    ELSE IF scan = "Exception"
    THEN [state |-> "UNKNOWN", report |-> "Unexpected error while retrieving dd-id"]
    ELSE IF scan = "WebDriverException"
    THEN [state |-> "raise", report |-> NoneVal]
    ELSE [state |-> "PARSE_ERROR", report |-> "Could not find data-domain script id"]

\* The ruleset-list document: undecodable, no dict, without 'RuleSet', with a
\* null 'RuleSet', or with a list of rulesets, each English, of another
\* language, with a null language map, or lacking a key.
RulesetKinds == {"en", "other", "null_languageset", "missing_key"}

RulesetDocs ==
    {[kind |-> k, rulesets |-> <<>>] :
        k \in {"undecodable", "not_a_dict", "no_RuleSet", "null_RuleSet"}}
    \cup {[kind |-> "list", rulesets |-> rs] : rs \in SeqsUpTo(RulesetKinds, MaxRulesets)}

\* The ids of the rulesets that have a language map, English or not.
AnyLanguageIds(rs) ==
    LET HasMap(i) == rs[i] \in {"en", "other"} IN SelectSeq([i \in 1..Len(rs) |-> i], HasMap)

EnglishIds(rs) ==
    LET IsEn(i) == rs[i] = "en" IN SelectSeq([i \in 1..Len(rs) |-> i], IsEn)

variantA_try_retrieve_ruleset_id(h, d) ==
    LET r == static_get_request(h) IN
    IF r.state # "SUCCESS" THEN [ids |-> <<>>, state |-> r.state, report |-> r.report]
    ELSE IF d.kind \in {"undecodable", "not_a_dict"}
    THEN [ids |-> <<>>, state |-> "raise", report |-> NoneVal]
    ELSE IF d.kind = "no_RuleSet"
    THEN [ids |-> <<>>, state |-> "PARSE_ERROR", report |-> "Key Error"]
    ELSE IF d.kind = "null_RuleSet"
    THEN [ids |-> <<>>, state |-> "PARSE_ERROR", report |-> "No valid 'RuleSet' element found"]
    ELSE IF \E i \in 1..Len(d.rulesets) : d.rulesets[i] = "missing_key"
    THEN [ids |-> <<>>, state |-> "PARSE_ERROR", report |-> "Key Error"]
    ELSE IF Len(EnglishIds(d.rulesets)) = 0
    THEN [ids |-> <<>>, state |-> "PARSE_ERROR", report |-> "No valid language ruleset found"]
    ELSE [ids |-> EnglishIds(d.rulesets), state |-> "SUCCESS", report |-> "Found ruleset ids"]

variantB_retrieve_script_path(nav, scan) ==
    LET got == driver_get(nav) IN
    IF got.state # "SUCCESS" THEN [state |-> got.state, report |-> got.report]
    ELSE IF scan = "found"
    THEN [state |-> "SUCCESS", report |-> "Found OneTrust consent javascript link"]
    ELSE IF scan = "Exception"
    THEN [state |-> "UNKNOWN", report |-> "Unexpected error while retrieving javascript link"]
    ELSE IF scan = "TimeoutException"
    THEN [state |-> "CONN_FAILED", report |-> "Variant B: Timed out"]
    ELSE IF scan = "WebDriverException"
    THEN [state |-> "raise", report |-> NoneVal]
    ELSE [state |-> "PARSE_ERROR", report |-> "Variant B: Could not find OneTrust javascript url"]

\* requests.get(script_url) is called outside the try block; the script has no
\* Groups marker, or the extracted text does not evaluate, or it does.
ScriptGets == {"response", "RequestException"}
Scripts == {"no_marker", "eval_error", "object"}

variantB_parse_script_for_object(get, script) ==
    IF get = "RequestException" THEN [state |-> "raise", report |-> NoneVal]
    ELSE IF script = "no_marker"
    THEN [state |-> "PARSE_ERROR", report |-> "Failed to find desired javascript object"]
    ELSE IF script = "eval_error"
    THEN [state |-> "UNKNOWN", report |-> "Unexpected error while parsing OneTrust javascript"]
    ELSE [state |-> "SUCCESS", report |-> "Successfully extracted objects from javascript"]

\* Variant A's failure recorded as the site's outcome, without Variant B.
VariantAFailed_final(state, report, failed) ==
    /\ v1' = <<state, report>>
    /\ update_crawl_stats(url, state, report)
    /\ pc' = "returned"
    /\ ret' = FALSE
    /\ step_failed' = (step_failed \/ failed)
    /\ UNCHANGED v2

\* except VariantFailedException as v1: Variant B is attempted next.
VariantAFailed(state, report, failed) ==
    /\ v1' = <<state, report>>
    /\ pc' = "ot_b1"
    /\ step_failed' = (step_failed \/ failed)
    /\ UNCHANGED call_frame

\* except VariantFailedException as v2: the exception whose state and message
\* are recorded.
variant_failure_first(a, b) == a

variant_failure_recorded(a, b) == b

VariantBFailed(state, report, failed) ==
    LET v == variant_failure_recorded(v1, <<state, report>>) IN
    /\ v2' = <<state, report>>
    /\ update_crawl_stats(url, v[1], v[2])
    /\ pc' = "returned"
    /\ ret' = FALSE
    /\ step_failed' = (step_failed \/ failed)

OT_Reach ==
    /\ cmp = "onetrust" /\ pc = "start"
    /\ \E h \in CrawlHttpResults :
          LET r == static_get_request(h) IN
          IF r.state # "SUCCESS" THEN Fail(r.state, r.report) ELSE Goto("ot_a1")
    /\ UNCHANGED <<step_frame, coll_vars, local_vars, b_attempted>>

OT_A1 ==
    /\ pc = "ot_a1"
    /\ \E nav \in CrawlNavResults, scan \in ScanResults :
          LET r == variantA_try_retrieve_uuid(nav, scan) IN
          IF r.state = "raise" THEN Raise /\ UNCHANGED v1
          ELSE IF r.state # "SUCCESS" THEN VariantAFailed(r.state, r.report, TRUE)
          ELSE Goto("ot_a2") /\ UNCHANGED v1
    /\ UNCHANGED <<step_frame, coll_vars, cookie_count, idx, cbid, doc, rs_ids, b_attempted>>

OT_A2 ==
    /\ pc = "ot_a2"
    /\ \E h \in CrawlHttpResults, d \in RulesetDocs :
          LET r == variantA_try_retrieve_ruleset_id(h, d) IN
          IF r.state = "raise" THEN Raise /\ UNCHANGED <<v1, rs_ids>>
          ELSE IF r.state # "SUCCESS"
          THEN VariantAFailed(r.state, r.report, TRUE) /\ UNCHANGED rs_ids
          ELSE Goto("ot_a3") /\ rs_ids' = r.ids /\ UNCHANGED v1
    /\ UNCHANGED <<step_frame, coll_vars, cookie_count, idx, cbid, doc, b_attempted>>

\* One iteration of the loop over ruleset_ids. The ruleset's en.json is not
\* fetched, undecodable or not English (skipped), or its cookie entries are
\* walked until the document ends or an access raises.
RulesetJsons == {"undecodable", "non_english", "groups"}
WalkEnds == {"end", "KeyError", "TypeError"}

OT_A3_Ruleset ==
    /\ pc = "ot_a3" /\ idx <= Len(rs_ids)
    /\ \E h \in CrawlHttpResults, j \in RulesetJsons :
          IF static_get_request(h).state # "SUCCESS" \/ j # "groups"
          THEN /\ pc' = "ot_a3" /\ idx' = idx + 1
               /\ step_failed' = TRUE
               /\ walked' = Append(walked,
                                   <<IF static_get_request(h).state # "SUCCESS"
                                     THEN "fetch failed" ELSE j, <<>>>>)
               /\ UNCHANGED <<call_frame, cookie_count, coll_vars>>
          ELSE \E entries \in SeqsUpTo(OTEntries, MaxEntries - cookie_count), end \in WalkEnds :
                  /\ SetCollected(ot_collect(Collected, entries, url))
                  /\ cookie_count' = cookie_count + Len(entries)
                  /\ walked' = Append(walked, <<end, entries>>)
                  /\ IF end = "TypeError" THEN Raise /\ UNCHANGED idx
                     ELSE /\ pc' = "ot_a3" /\ idx' = idx + 1
                          /\ step_failed' = (step_failed \/ end = "KeyError")
                          /\ UNCHANGED call_frame
    /\ UNCHANGED <<fetch_frame, doc_fetch, steps, cbid, doc, rs_ids, v1, b_attempted>>

\* The state of Variant A with SUCCESS kept for more than one cookie.
variantA_result_two(count) ==
    IF count <= 1
    THEN [state |-> "PARSE_ERROR", report |-> "Failed to extract cookies from rulesets"]
    ELSE [state |-> "SUCCESS", report |-> "Cookies Extracted"]

\* The state of Variant A after the loop over ruleset_ids.
variantA_result(count) ==
    IF count = 0
    THEN [state |-> "PARSE_ERROR", report |-> "Failed to extract cookies from rulesets"]
    ELSE [state |-> "SUCCESS", report |-> "Cookies Extracted"]

OT_A3_End ==
    /\ pc = "ot_a3" /\ idx > Len(rs_ids)
    /\ LET r == variantA_result(cookie_count) IN
       IF r.state # "SUCCESS"
       THEN VariantAFailed(r.state, r.report, FALSE)
       ELSE Return(r.state, r.report, TRUE) /\ UNCHANGED v1
    /\ UNCHANGED <<step_frame, coll_vars, cookie_count, idx, cbid, doc, rs_ids, b_attempted>>

OT_B1 ==
    /\ pc = "ot_b1"
    /\ b_attempted' = TRUE
    /\ \E nav \in CrawlNavResults, scan \in ScanResults :
          LET r == variantB_retrieve_script_path(nav, scan) IN
          IF r.state = "raise" THEN Raise
          ELSE IF r.state # "SUCCESS" THEN VariantBFailed(r.state, r.report, TRUE)
          ELSE Goto("ot_b2")
    /\ UNCHANGED <<step_frame, coll_vars, local_vars>>

OT_B2 ==
    /\ pc = "ot_b2"
    /\ \E get \in ScriptGets, script \in Scripts :
          LET r == variantB_parse_script_for_object(get, script) IN
          IF r.state = "raise" THEN Raise /\ UNCHANGED cookie_count
          ELSE IF r.state # "SUCCESS"
          THEN VariantBFailed(r.state, r.report, TRUE) /\ UNCHANGED cookie_count
          ELSE Goto("ot_b3") /\ cookie_count' = 0
    /\ UNCHANGED <<step_frame, coll_vars, idx, cbid, doc, rs_ids, v1, b_attempted>>

\* One iteration of the loop over consent_data["Groups"]: the group's cookie
\* entries are walked; an access raises KeyError or another exception, or the
\* loop goes on.
OT_B3_Group ==
    /\ pc = "ot_b3"
    /\ \E entries \in SeqsUpTo(OTEntries, MaxEntries - cookie_count), end \in WalkEnds :
          /\ SetCollected(ot_collect(Collected, entries, url))
          /\ cookie_count' = cookie_count + Len(entries)
          /\ IF end = "TypeError" THEN Raise
             ELSE IF end = "KeyError"
             THEN VariantBFailed("PARSE_ERROR", "KeyError", TRUE)
             ELSE Goto("ot_b3")
    /\ UNCHANGED <<step_frame, idx, cbid, doc, rs_ids, v1, b_attempted>>

\* The state of Variant B after the loop over the groups.
variantB_result(count) ==
    IF count = 0
    THEN [state |-> "MALFORM_RESP", report |-> "Consent Platform Script contained zero cookies!"]
    ELSE [state |-> "SUCCESS", report |-> "Successfully retrieved cookies."]

OT_B3_End ==
    /\ pc = "ot_b3"
    /\ LET r == variantB_result(cookie_count) IN
       IF r.state # "SUCCESS"
       THEN VariantBFailed(r.state, r.report, FALSE)
       ELSE Return(r.state, r.report, TRUE)
    /\ UNCHANGED <<step_frame, coll_vars, local_vars, b_attempted>>

\* ------------------------------------------------------------ run_scraper.main
CMPs == {"cookiebot", "onetrust", "termly"}

\* The collections of BaseScraper.__init__, and no call in progress.
Fresh ==
    /\ crawl_log = <<>>
    /\ failed_urls = <<>>
    /\ status_counts = [e \in CrawlState |-> 0]
    /\ database_cookie_data = <<>>
    /\ cookie_labels = <<>>
    /\ db_rows = <<>>
    /\ comp_succ = 0 /\ comp_fail = 0
    /\ url = 0 /\ uncrawled_urls = {}
    /\ pc = "idle" /\ ret = FALSE
    /\ cookie_count = 0 /\ idx = 1 /\ cbid = "" /\ doc = NoneVal /\ rs_ids = <<>>
    /\ v1 = <<>> /\ v2 = <<>>
    /\ upd_calls = 0 /\ recorded = <<>>
    /\ data_at_call = <<>> /\ labels_at_call = <<>>
    /\ step_failed = FALSE /\ b_attempted = FALSE /\ doc_fetch = NoneVal /\ walked = <<>> /\ steps = <<>>

\* The scraper after BaseScraper.__init__.
Constructed == webdriver = "stopped" /\ Fresh

Init ==
    /\ Constructed
    /\ cmp \in CMPs
    /\ sites = Sites /\ total = Cardinality(Sites)
    /\ mpc = "start"
    /\ cat_name_in = <<>> /\ cat_out = NoneVal /\ calls = <<>>
    /\ call_in = NoneVal /\ call_out = NoneVal

start_webdriver ==
    /\ mpc = "start"
    /\ webdriver = "stopped"
    /\ webdriver' = "running"
    /\ mpc' = "loop"
    /\ UNCHANGED <<stats_vars, coll_vars, db_rows, cmp, sites, total, uncrawled_urls, comp_succ, comp_fail,
                   url, call_vars, hist_vars, lookup_vars>>

\* u = sites.pop(); scrape_website(u, sess) is entered.
CrawlNext ==
    /\ mpc = "loop" /\ sites # {}
    /\ \E u \in sites : url' = u /\ sites' = sites \ {u}
    /\ mpc' = "crawl"
    /\ pc' = "start" /\ ret' = FALSE
    /\ cookie_count' = 0 /\ idx' = 1 /\ cbid' = "" /\ doc' = NoneVal /\ rs_ids' = <<>>
    /\ v1' = <<>> /\ v2' = <<>>
    /\ upd_calls' = 0 /\ recorded' = <<>>
    /\ data_at_call' = database_cookie_data /\ labels_at_call' = cookie_labels
    /\ step_failed' = FALSE /\ b_attempted' = FALSE /\ doc_fetch' = NoneVal /\ walked' = <<>> /\ steps' = <<>>
    /\ UNCHANGED <<scraper_vars, cmp, total, uncrawled_urls, comp_succ, comp_fail, lookup_vars>>

\* scrape_website returned: the loop counts the site.
CrawlReturned ==
    /\ mpc = "crawl" /\ pc = "returned"
    /\ IF ret
       THEN comp_succ' = comp_succ + 1 /\ UNCHANGED comp_fail
       ELSE comp_fail' = comp_fail + 1 /\ UNCHANGED comp_succ
    /\ mpc' = "loop"
    /\ pc' = "idle"
    /\ cookie_count' = 0 /\ idx' = 1 /\ cbid' = "" /\ doc' = NoneVal /\ rs_ids' = <<>>
    /\ v1' = <<>> /\ v2' = <<>>
    /\ upd_calls' = 0 /\ recorded' = <<>>
    /\ data_at_call' = <<>> /\ labels_at_call' = <<>>
    /\ step_failed' = FALSE /\ b_attempted' = FALSE /\ doc_fetch' = NoneVal /\ walked' = <<>> /\ steps' = <<>>
    /\ UNCHANGED <<scraper_vars, cmp, sites, total, uncrawled_urls, url, ret, lookup_vars>>

\* An exception other than KeyboardInterrupt left scrape_website: the finally
\* clause runs and the exception leaves main.
CrawlRaised ==
    /\ mpc = "crawl" /\ pc = "raised"
    /\ webdriver' = "stopped"
    /\ mpc' = "crashed"
    /\ UNCHANGED <<stats_vars, coll_vars, db_rows, cmp, sites, total, uncrawled_urls, comp_succ, comp_fail,
                   url, call_vars, hist_vars, lookup_vars>>

store_cookies_in_db ==
    /\ db_rows' = db_rows \o database_cookie_data
    /\ database_cookie_data' = <<>>

\* The loop ended: finally clause, reports, store_cookies_in_db.
Finish ==
    /\ mpc = "loop" /\ sites = {}
    /\ webdriver' = "stopped"
    /\ store_cookies_in_db
    /\ mpc' = "done"
    /\ UNCHANGED <<stats_vars, cookie_labels, cmp, sites, total, uncrawled_urls, comp_succ, comp_fail,
                   url, call_vars, hist_vars, lookup_vars>>

\* KeyboardInterrupt reaches main inside the try block, between two calls or
\* while scrape_website runs: the sites not yet popped are written to
\* uncrawled_urls.txt, the finally clause runs, and main goes on to the
\* reports and store_cookies_in_db.
Interrupt ==
    /\ mpc \in {"loop", "crawl"}
    /\ pc # "raised"
    /\ uncrawled_urls' = sites
    /\ webdriver' = "stopped"
    /\ store_cookies_in_db
    /\ mpc' = "cancelled"
    /\ UNCHANGED <<stats_vars, cookie_labels, cmp, sites, total, comp_succ, comp_fail,
                   url, call_vars, hist_vars, lookup_vars>>

Next ==
    \/ start_webdriver \/ CrawlNext \/ CrawlReturned \/ CrawlRaised \/ Finish
    \/ CB_Reach \/ CB_RetrieveCbid \/ CB_Referer \/ CB_Fetch \/ CB_Bucket \/ CB_Finish
    \/ T_Navigate \/ T_FetchPolicy \/ T_FetchCookies \/ T_ParseStart \/ T_Key \/ T_Finish
    \/ OT_Reach \/ OT_A1 \/ OT_A2 \/ OT_A3_Ruleset \/ OT_A3_End
    \/ OT_B1 \/ OT_B2 \/ OT_B3_Group \/ OT_B3_End

Spec == Init /\ [][Next]_vars

\* A run the user may cancel.
NextInterrupt == Next \/ Interrupt

SpecInterrupt == Init /\ [][NextInterrupt]_vars

\* ------------------------------------------- category_lookup_en on its own
InitLookup ==
    /\ Constructed
    /\ cmp = "onetrust" /\ sites = {} /\ total = 0
    /\ mpc = "lookup"
    /\ cat_name_in \in CategoryNames /\ cat_out = NoneVal /\ calls = <<>>
    /\ call_in = NoneVal /\ call_out = NoneVal

Lookup ==
    /\ mpc = "lookup"
    /\ cat_out' = category_lookup_en(cat_name_in)
    /\ mpc' = "looked_up"
    /\ UNCHANGED <<scraper_vars, cmp, sites, total, uncrawled_urls, comp_succ, comp_fail, url, call_vars,
                   hist_vars, cat_name_in, calls, call_in, call_out>>

NextLookup == Lookup

SpecLookup == InitLookup /\ [][NextLookup]_vars

\* ------------------------------------------- collect_cookie_dat on its own
CatNames == {"Necessary", "Statistics"}

InitCollect ==
    /\ Constructed
    /\ cmp = "cookiebot" /\ sites = {} /\ total = 0
    /\ mpc = "collect"
    /\ cat_name_in = <<>> /\ cat_out = NoneVal /\ calls = <<>>
    /\ call_in = NoneVal /\ call_out = NoneVal

Collect ==
    /\ mpc = "collect" /\ Len(calls) < MaxCalls
    /\ \E site_url \in Sites, name \in CookieNames, cat_name \in CatNames :
          /\ SetCollected(collect_cookie_dat(Collected, site_url, name, "x.com", "/",
                                             cat_name, name_to_cat[cat_name], NoneVal,
                                             NoneVal))
          /\ calls' = Append(calls, <<site_url, name, "x.com", "/", cat_name>>)
    /\ UNCHANGED <<webdriver, stats_vars, db_rows, main_vars, call_vars, hist_vars,
                   cat_name_in, cat_out, call_in, call_out>>

Store ==
    /\ mpc = "collect" /\ database_cookie_data # <<>>
    /\ store_cookies_in_db
    /\ UNCHANGED <<webdriver, stats_vars, cookie_labels, main_vars, call_vars, hist_vars,
                   lookup_vars>>

NextCollect == Collect \/ Store

SpecCollect == InitCollect /\ [][NextCollect]_vars


\* ------------------------------------------- static_get_request on its own
InitGet ==
    /\ Constructed
    /\ cmp \in CMPs /\ sites = {} /\ total = 0
    /\ mpc = "get"
    /\ cat_name_in = <<>> /\ cat_out = NoneVal /\ calls = <<>>
    /\ call_in \in HttpResults /\ call_out = NoneVal

StaticGet ==
    /\ mpc = "get"
    /\ call_out' = static_get_request(call_in)
    /\ mpc' = "got"
    /\ UNCHANGED <<scraper_vars, cmp, sites, total, uncrawled_urls, comp_succ, comp_fail, url,
                   call_vars, hist_vars, cat_name_in, cat_out, calls, call_in>>

NextGet == StaticGet

SpecGet == InitGet /\ [][NextGet]_vars

\* ---------------------------------------- try_selenium_approach on its own
\* The webdriver runs; the inputs are what the navigation, the wait for a
\* script tag with data-cbid and the two pattern searches end with.
InitDiscovery ==
    /\ webdriver = "running" /\ Fresh
    /\ cmp = "cookiebot" /\ sites = {} /\ total = 0
    /\ mpc = "discovery"
    /\ cat_name_in = <<>> /\ cat_out = NoneVal /\ calls = <<>>
    /\ call_in \in [nav : NavResults, wait : WaitResults,
                    variant_2 : BOOLEAN, variant_3 : BOOLEAN]
    /\ call_out = NoneVal

\* state, report = self.driver_get(url)
Navigate ==
    /\ mpc = "discovery"
    /\ LET got == driver_get(call_in.nav) IN
       /\ call_out' = [got |-> got]
       /\ mpc' = IF got.state = "raise" THEN "discovery raised" ELSE "navigated"
    /\ UNCHANGED <<scraper_vars, cmp, sites, total, uncrawled_urls, comp_succ, comp_fail, url,
                   call_vars, hist_vars, cat_name_in, cat_out, calls, call_in>>

\* The test of state and the search for the id: try_selenium_approach returns.
Discover ==
    /\ mpc = "navigated"
    /\ call_out' = [got |-> call_out.got,
                    res |-> try_selenium_approach(call_in.nav, call_in.wait,
                                                  call_in.variant_2, call_in.variant_3)]
    /\ mpc' = "discovery returned"
    /\ UNCHANGED <<scraper_vars, cmp, sites, total, uncrawled_urls, comp_succ, comp_fail, url,
                   call_vars, hist_vars, cat_name_in, cat_out, calls, call_in>>

NextDiscovery == Navigate \/ Discover

SpecDiscovery == InitDiscovery /\ [][NextDiscovery]_vars

\* ------------------------------ variantA_try_retrieve_ruleset_id on its own
\* The inputs are what the fetch of the ruleset list ends with and the document
\* it delivers.
InitRuleset ==
    /\ Constructed
    /\ cmp = "onetrust" /\ sites = {} /\ total = 0
    /\ mpc = "ruleset"
    /\ cat_name_in = <<>> /\ cat_out = NoneVal /\ calls = <<>>
    /\ call_in \in [h : HttpResults, d : RulesetDocs]
    /\ call_out = NoneVal

RetrieveRulesetId ==
    /\ mpc = "ruleset"
    /\ LET r == variantA_try_retrieve_ruleset_id(call_in.h, call_in.d) IN
       /\ call_out' = r
       /\ mpc' = IF r.state = "raise" THEN "ruleset raised" ELSE "ruleset returned"
    /\ UNCHANGED <<scraper_vars, cmp, sites, total, uncrawled_urls, comp_succ, comp_fail, url,
                   call_vars, hist_vars, cat_name_in, cat_out, calls, call_in>>

NextRuleset == RetrieveRulesetId

SpecRuleset == InitRuleset /\ [][NextRuleset]_vars

\* ------------------------------ variantB_parse_script_for_object on its own
\* The script body is what requests.get delivers, a text over the characters that matter to the search and
\* to the scan, newlines already replaced by blanks; "G" stands for the text
\* `Groups:`.
ScriptAlphabet == {",", " ", "G", "[", "]"}
ScriptBodies == SeqsUpTo(ScriptAlphabet, MaxBody)

RECURSIVE lstrip(_)
lstrip(s) == IF s # <<>> /\ Head(s) = " " THEN lstrip(Tail(s)) ELSE s

RECURSIVE rstrip(_)
rstrip(s) == IF s # <<>> /\ s[Len(s)] = " " THEN rstrip(SubSeq(s, 1, Len(s) - 1)) ELSE s

\* .text.strip()
strip(s) == rstrip(lstrip(s))

\* \s* from position p (counted from 1): the first position that holds no blank.
RECURSIVE SkipSpace(_, _)
SkipSpace(s, p) == IF p <= Len(s) /\ s[p] = " " THEN SkipSpace(s, p + 1) ELSE p

\* The pattern ,\s*Groups:\s*\[ matched at position p (counted from 1): the
\* position of the opening bracket, or 0 for no match.
GroupsMatchAt(s, p) ==
    IF s[p] # "," THEN 0
    ELSE LET g == SkipSpace(s, p + 1) IN
         IF g > Len(s) \/ s[g] # "G" THEN 0
         ELSE LET b == SkipSpace(s, g + 1) IN
              IF b > Len(s) \/ s[b] # "[" THEN 0 ELSE b

\* re.search: the leftmost match, with start(0) and end(0) counted from 0 as
\* Python does.
re_search(s) ==
    LET starts == {p \in 1..Len(s) : GroupsMatchAt(s, p) # 0} IN
    IF starts = {} THEN [found |-> FALSE, start |-> 0, end |-> 0]
    ELSE LET p == CHOOSE q \in starts : \A r \in starts : q <= r IN
         [found |-> TRUE, start |-> p - 1, end |-> GroupsMatchAt(s, p)]

\* The body of the while loop with the first closing bracket ending the scan.
scan_step_first_close(text, i, open_brackets) ==
    [i |-> i + 1,
     open_brackets |-> IF text[i + 1] = "[" THEN open_brackets + 1
                       ELSE IF text[i + 1] = "]" THEN 0
                       ELSE open_brackets]

\* The body of the while loop; cookielaw_script[i] is text[i + 1].
scan_step(text, i, open_brackets) ==
    [i |-> i + 1,
     open_brackets |-> IF text[i + 1] = "[" THEN open_brackets + 1
                       ELSE IF text[i + 1] = "]" THEN open_brackets - 1
                       ELSE open_brackets]

\* What js2py.eval_js ends with.
EvalResults == {"object", "exception"}

InitScan ==
    /\ Constructed
    /\ cmp = "onetrust" /\ sites = {} /\ total = 0
    /\ mpc = "script"
    /\ cat_name_in = <<>> /\ cat_out = NoneVal /\ calls = <<>>
    /\ call_in = <<>>
    /\ call_out = [state |-> "start"]

scan_frame ==
    <<scraper_vars, cmp, sites, total, uncrawled_urls, comp_succ, comp_fail, url,
      call_vars, hist_vars, cat_name_in, cat_out, calls>>

\* requests.get, strip, re.sub and re.search.
FetchScript ==
    /\ mpc = "script"
    /\ call_in' \in ScriptBodies
    /\ \E get \in ScriptGets :
          LET text == strip(call_in')
              matchobj == re_search(text) IN
          IF get = "RequestException"
          THEN /\ mpc' = "script raised"
               /\ call_out' = [state |-> variantB_parse_script_for_object(get, "object").state]
          ELSE IF ~matchobj.found
          THEN /\ mpc' = "script returned"
               /\ call_out' = [state |-> variantB_parse_script_for_object(get, "no_marker").state,
                               payload |-> NoneVal, text |-> text]
          ELSE /\ mpc' = "scanning"
               /\ call_out' = [state |-> "scanning", text |-> text,
                               startpoint |-> matchobj.start, i |-> matchobj.end,
                               open_brackets |-> 1]
    /\ UNCHANGED scan_frame

\* One iteration of the while loop.
ScanStep ==
    /\ mpc = "scanning"
    /\ call_out.i < Len(call_out.text) /\ call_out.open_brackets > 0
    /\ LET n == scan_step(call_out.text, call_out.i, call_out.open_brackets) IN
       call_out' = [call_out EXCEPT !.i = n.i, !.open_brackets = n.open_brackets]
    /\ UNCHANGED <<scan_frame, mpc, call_in>>

\* After the loop: group_string = cookielaw_script[startpoint+1:i], and the
\* evaluation of the function built around it.
Evaluate ==
    /\ mpc = "scanning"
    /\ ~(call_out.i < Len(call_out.text) /\ call_out.open_brackets > 0)
    /\ \E ev \in EvalResults :
          LET group_string == SubSeq(call_out.text, call_out.startpoint + 2, call_out.i)
              r == variantB_parse_script_for_object(
                      "response", IF ev = "exception" THEN "eval_error" ELSE "object") IN
          call_out' = [state |-> r.state,
                       payload |-> IF r.state = "SUCCESS" THEN group_string ELSE NoneVal,
                       text |-> call_out.text,
                       group_string |-> group_string,
                       startpoint |-> call_out.startpoint,
                       i |-> call_out.i, open_brackets |-> call_out.open_brackets]
    /\ mpc' = "script returned"
    /\ UNCHANGED <<scan_frame, call_in>>

NextScan == FetchScript \/ ScanStep \/ Evaluate

SpecScan == InitScan /\ [][NextScan]_vars

\* The call runs in one thread and nothing suspends it.
SpecScanFair == SpecScan /\ WF_vars(NextScan)

\* ------------------------------------------- the webdriver methods on their own
\* start_webdriver called with self.webdriver in state w.
start_webdriver_from(w) ==
    IF w = "running"
    THEN [webdriver |-> w, raised |-> "RuntimeError"]
    ELSE [webdriver |-> "running", raised |-> NoneVal]

\* stop_webdriver with the test of self.webdriver left out.
stop_webdriver_unchecked(w) == [webdriver |-> "stopped", raised |-> NoneVal]

\* stop_webdriver called with self.webdriver in state w.
stop_webdriver_from(w) ==
    IF w # "running"
    THEN [webdriver |-> w, raised |-> "RuntimeError"]
    ELSE [webdriver |-> "stopped", raised |-> NoneVal]

\* driver_get called with self.webdriver in state w.
driver_get_from(w, nav) ==
    IF w # "running"
    THEN [webdriver |-> w, raised |-> "RuntimeError"]
    ELSE [webdriver |-> w,
          raised |-> IF driver_get(nav).state = "raise" THEN driver_get(nav).report
                     ELSE NoneVal]

\* driver_get_current_pagesource called with self.webdriver in state w.
driver_get_current_pagesource(w) ==
    IF w # "running"
    THEN [webdriver |-> w, raised |-> "RuntimeError"]
    ELSE [webdriver |-> w, raised |-> NoneVal]

\* A client that calls the four methods in any order; calls holds the calls
\* made, each with the state before it and what it ended with.
InitWebdriver ==
    /\ Constructed
    /\ cmp \in CMPs /\ sites = {} /\ total = 0
    /\ mpc = "webdriver"
    /\ cat_name_in = <<>> /\ cat_out = NoneVal /\ calls = <<>>
    /\ call_in = NoneVal /\ call_out = NoneVal

WebdriverCall(op, r) ==
    /\ mpc = "webdriver" /\ Len(calls) < MaxCalls
    /\ webdriver' = r.webdriver
    /\ calls' = Append(calls, [op |-> op, before |-> webdriver, after |-> r.webdriver,
                               raised |-> r.raised])
    /\ UNCHANGED <<stats_vars, coll_vars, db_rows, main_vars, call_vars, hist_vars,
                   cat_name_in, cat_out, call_in, call_out>>

StartWebdriver == WebdriverCall("start_webdriver", start_webdriver_from(webdriver))

StopWebdriver == WebdriverCall("stop_webdriver", stop_webdriver_from(webdriver))

DriverGet == \E nav \in NavResults : WebdriverCall("driver_get", driver_get_from(webdriver, nav))

PageSource ==
    WebdriverCall("driver_get_current_pagesource", driver_get_current_pagesource(webdriver))

NextWebdriver == StartWebdriver \/ StopWebdriver \/ DriverGet \/ PageSource

\* The session of a run of main, cancelled or not, and of a client of the
\* four methods.
SpecWebdriver == (Init \/ InitWebdriver) /\ [][NextInterrupt \/ NextWebdriver]_vars

\* ================================================================ properties
\* The records the call in progress has added so far.
AddedRows == (Len(data_at_call) + 1)..Len(database_cookie_data)

NoRecordAdded ==
    /\ database_cookie_data = data_at_call
    /\ cookie_labels = labels_at_call

\* The identity triple of a row of database_cookie_data and of a call of
\* collect_cookie_dat.
RowIdent(row) == <<row[2], row[3], row[4]>>
CallIdent(c) == <<c[2], c[3], c[4]>>

\* C1: every call of scrape_website invokes update_crawl_stats exactly once
\* before it ends, on every path, a raising one included.
C1_ExactlyOneOutcome ==
    pc \in {"returned", "raised"} => upd_calls = 1

\* C2: whenever scrape_website records an outcome other than SUCCESS, the
\* collected records (database_cookie_data and cookie_labels) are the same as
\* before the call.
C2_FailureAddsNothing ==
    (pc = "returned" /\ recorded[1] # "SUCCESS") => NoRecordAdded

\* C3: whenever scrape_website records SUCCESS for a site, the call added at
\* least one row carrying that site's URL to database_cookie_data.
C3_SuccessAddsRecord ==
    (pc = "returned" /\ recorded[1] = "SUCCESS") =>
        \E i \in AddedRows : database_cookie_data[i][1] = url

\* A call on a scraper that already holds records of another site recorded
\* SUCCESS.
C3_Witness ==
    /\ pc = "returned"
    /\ recorded[1] = "SUCCESS"
    /\ data_at_call # <<>>

\* C4 as stated: in each of the three extractors NO_COOKIES is recorded if and
\* only if every step completed without error and no record was produced.
C4_NoCookiesIffFullRunZero ==
    pc = "returned" =>
        (recorded[1] = "NO_COOKIES" <=> (~step_failed /\ AddedRows = {}))

\* C4 amended: the equivalence holds in the Cookiebot and the Termly
\* extractor; the OneTrust extractor never records NO_COOKIES, and records
\* MALFORM_RESP for an extraction that ran fully and produced no record.
C4_NoCookiesPerExtractor ==
    pc = "returned" =>
        /\ cmp \in {"cookiebot", "termly"} =>
              (recorded[1] = "NO_COOKIES" <=> (~step_failed /\ AddedRows = {}))
        /\ cmp = "onetrust" =>
              /\ recorded[1] # "NO_COOKIES"
              /\ (~step_failed /\ AddedRows = {}) => recorded[1] = "MALFORM_RESP"

\* Both OneTrust variants ran through without an error and without a record.
C4_Witness ==
    /\ pc = "returned"
    /\ cmp = "onetrust"
    /\ ~step_failed
    /\ b_attempted
    /\ AddedRows = {}

\* C5 as stated: no two rows of database_cookie_data share an identity
\* (name, domain, path).
C5_RowsUniqueByIdentity ==
    \A i, j \in 1..Len(database_cookie_data) :
        i # j => RowIdent(database_cookie_data[i]) # RowIdent(database_cookie_data[j])

\* C5 amended: only cookie_labels is keyed by identity, its keys being the
\* identities passed so far; database_cookie_data and the rows handed to
\* persistence hold one row per call of collect_cookie_dat, in call order,
\* rows of one identity included.
C5_OneRowPerCall ==
    LET rows == db_rows \o database_cookie_data IN
    /\ DOMAIN cookie_labels = {CallIdent(calls[k]) : k \in 1..Len(calls)}
    /\ Len(rows) = Len(calls)
    /\ \A k \in 1..Len(calls) :
          /\ rows[k][1] = calls[k][1]
          /\ RowIdent(rows[k]) = CallIdent(calls[k])
          /\ rows[k][6] = calls[k][5]

\* Two calls passed the same identity and rows were handed to persistence.
C5_Witness ==
    /\ db_rows # <<>>
    /\ \E i, j \in 1..Len(calls) : i < j /\ CallIdent(calls[i]) = CallIdent(calls[j])

\* C6: the label list cookie_labels holds for an identity is the union of the
\* category names passed in the calls with that identity, each name once.
C6_LabelsAreUnion ==
    \A ident \in DOMAIN cookie_labels :
        LET labels == cookie_labels[ident] IN
        /\ \A i, j \in 1..Len(labels) : i # j => labels[i] # labels[j]
        /\ {labels[i] : i \in 1..Len(labels)} =
              {calls[k][5] : k \in {n \in 1..Len(calls) : CallIdent(calls[n]) = ident}}

\* An identity was passed three times or more, with two category names.
C6_Witness ==
    \E ident \in DOMAIN cookie_labels :
        /\ Len(cookie_labels[ident]) = 2
        /\ Cardinality({n \in 1..Len(calls) : CallIdent(calls[n]) = ident}) >= 3

\* C7: in the OneTrust extractor, every step after the reachability fetch that
\* records an outcome other than SUCCESS does so with Variant B's first step
\* executed.
C7_VariantBBeforeFailure ==
    [][(/\ cmp = "onetrust"
        /\ pc \notin {"start", "returned"}
        /\ pc' = "returned"
        /\ recorded'[1] # "SUCCESS") => b_attempted']_vars

\* Variant A ran through without a cookie and a failure was recorded after
\* Variant B.
C7_Witness ==
    /\ cmp = "onetrust"
    /\ pc = "returned"
    /\ v1 = <<"PARSE_ERROR", "Failed to extract cookies from rulesets">>
    /\ recorded[1] # "SUCCESS"
    /\ b_attempted

\* C8: in the OneTrust extractor, when Variant A and Variant B both failed,
\* the state and report recorded for the site are those of the failing
\* Variant B step.
C8_VariantBOutcomeRecorded ==
    (cmp = "onetrust" /\ pc = "returned" /\ v1 # <<>> /\ v2 # <<>>) =>
        /\ recorded = v2
        /\ url \in DOMAIN crawl_log
        /\ crawl_log[url] = v2

\* Both variants failed, with different outcomes.
C8_Witness ==
    /\ cmp = "onetrust"
    /\ pc = "returned"
    /\ v1 # <<>>
    /\ v2 # <<>>
    /\ v1[1] # v2[1]

\* C9: no exception leaves scrape_website, and no exception of an extraction
\* step ends the loop of main.
C9_NoExceptionLeaves ==
    pc # "raised" /\ mpc # "crashed"

\* C10: category_lookup_en returns one of the six CookieCategory values for
\* every category name and leaves the scraper as it was constructed.
C10_LookupTotal ==
    mpc = "looked_up" =>
        /\ cat_out \in CookieCategory
        /\ crawl_log = <<>> /\ failed_urls = <<>>
        /\ status_counts = [e \in CrawlState |-> 0]
        /\ database_cookie_data = <<>> /\ cookie_labels = <<>> /\ db_rows = <<>>

\* A name no pattern matches was looked up.
C10_Witness ==
    /\ mpc = "looked_up"
    /\ cat_out = "UNKNOWN"
    /\ cat_name_in # <<>>

\* C11: category_lookup_en tests the families in the order advertising,
\* necessary, analytics, functional, uncategorized and returns the category of
\* the first family whose pattern matches the name, UNKNOWN when none does; a
\* name matching both the advertising and the necessary pattern is ADVERTISING.
C11_LookupPriority ==
    mpc = "looked_up" =>
        LET adv == advertise_pattern(cat_name_in)
            nec == necessary_pattern(cat_name_in)
            ana == analytical_pattern(cat_name_in)
            fun == functional_pattern(cat_name_in)
            unc == uncat_pattern(cat_name_in)
        IN  /\ adv => cat_out = "ADVERTISING"
            /\ (~adv /\ nec) => cat_out = "ESSENTIAL"
            /\ (~adv /\ ~nec /\ ana) => cat_out = "ANALYTICAL"
            /\ (~adv /\ ~nec /\ ~ana /\ fun) => cat_out = "FUNCTIONAL"
            /\ (~adv /\ ~nec /\ ~ana /\ ~fun /\ unc) => cat_out = "UNCLASSIFIED"
            /\ (~adv /\ ~nec /\ ~ana /\ ~fun /\ ~unc) => cat_out = "UNKNOWN"

\* A name matching the necessary pattern first and the advertising pattern
\* after it was looked up.
C11_Witness ==
    /\ mpc = "looked_up"
    /\ cat_name_in = <<"N", "e", "c", "e", "s", "s", "a", "r", "y", " ", "a", "d", "s">>
    /\ cat_out = "ADVERTISING"

C13_InterruptLosesNoSite ==
    mpc = "cancelled" =>
        \A s \in Sites : s \in DOMAIN crawl_log \/ s \in uncrawled_urls

\* C14: when the crawl of a site is interrupted before its outcome is
\* recorded, the records that crawl collected are not persisted: the persisted
\* records are those of the completed crawls.
C14_InterruptedCrawlDiscarded ==
    (mpc = "cancelled" /\ pc # "idle" /\ upd_calls = 0) =>
        /\ db_rows = data_at_call
        /\ database_cookie_data = <<>>

\* C15: in every extractor, when the fetch of a CMP data document fails with
\* CONN_FAILED or HTTP_ERROR and that failure ends the crawl of the site, the
\* outcome recorded for the site is that same CONN_FAILED or HTTP_ERROR,
\* recorded once.
C15_FetchFailureRecordedAsIs ==
    (pc \in {"returned", "raised"} /\ doc_fetch \in {"CONN_FAILED", "HTTP_ERROR"}) =>
        /\ pc = "returned"
        /\ recorded[1] = doc_fetch
        /\ upd_calls = 1

\* C16: static_get_request maps every result of one GET to an outcome and
\* never raises: status 525 gives SSL_ERROR, any other status >= 400
\* HTTP_ERROR, a status below 400 SUCCESS with the response; a TLS failure
\* gives SSL_ERROR, a missing or malformed scheme MALFORMED_URL, a connect,
\* proxy, redirect-loop or timeout failure CONN_FAILED; a failed request
\* hands no response to the caller.
C16_GetOutcomeMapping ==
    mpc = "got" =>
        /\ call_out.state \in CrawlState
        /\ (call_in.exc = "none" /\ call_in.status = 525) => call_out.state = "SSL_ERROR"
        /\ (call_in.exc = "none" /\ call_in.status >= 400 /\ call_in.status # 525) =>
              call_out.state = "HTTP_ERROR"
        /\ (call_in.exc = "none" /\ call_in.status < 400) =>
              (call_out.state = "SUCCESS" /\ call_out.resp = call_in)
        /\ call_in.exc = "SSLError" => call_out.state = "SSL_ERROR"
        /\ call_in.exc \in {"URLRequired", "MissingSchema", "InvalidSchema"} =>
              call_out.state = "MALFORMED_URL"
        /\ call_in.exc \in {"ConnectionError", "ProxyError", "TooManyRedirects", "Timeout"} =>
              call_out.state = "CONN_FAILED"
        /\ call_in.exc # "none" => call_out.resp = NoneVal

\* C17: driver_get with a running webdriver returns exactly one outcome and
\* raises nothing: a page-load timeout gives SUCCESS with a diagnostic, and the
\* extractor's next step runs; an invalid-argument error gives MALFORMED_URL,
\* an insecure-certificate error SSL_ERROR, an engine error reporting an
\* unreachable page CONN_FAILED, every other engine error UNKNOWN; a
\* navigation without an error gives SUCCESS.
C17_DriverGetOutcome ==
    (webdriver = "running" /\ mpc \in {"navigated", "discovery returned", "discovery raised"}) =>
        LET nav == call_in.nav
            got == call_out.got
        IN  /\ mpc # "discovery raised"
            /\ got.state \in CrawlState
            /\ nav = "TimeoutException" =>
                  /\ got.state = "SUCCESS" /\ got.report # NoneVal
                  /\ (mpc = "discovery returned" /\ call_in.wait = "uuid") =>
                        call_out.res.cbid = "uuid"
            /\ nav = "InvalidArgumentException" => got.state = "MALFORMED_URL"
            /\ nav = "InsecureCertificateException" => got.state = "SSL_ERROR"
            /\ nav = "WebDriverException: Reached error page" => got.state = "CONN_FAILED"
            /\ nav = "WebDriverException" => got.state = "UNKNOWN"
            /\ nav \in {"ok", "ok, alert open"} => got.state = "SUCCESS"

\* C20: in try_selenium_approach the search for the two URL patterns runs
\* only after the navigation succeeded and the wait for a script tag with the
\* id attribute ended without a result; the step returns PARSE_ERROR exactly
\* when the navigation succeeded, the wait ended without a result and neither
\* pattern matched; when the navigation failed it returns the navigation's
\* outcome without a search; it returns SUCCESS only with a non-empty id.
C20_DiscoveryOrder ==
    mpc = "discovery returned" =>
        LET navigated == call_out.got.state = "SUCCESS"
            no_result == call_in.wait \in {"TimeoutException", "StaleElementReferenceException"}
            res == call_out.res
        IN  /\ res.fallback => (navigated /\ no_result)
            /\ (navigated /\ no_result) => res.fallback
            /\ res.state = "PARSE_ERROR" <=>
                  (navigated /\ no_result /\ ~call_in.variant_2 /\ ~call_in.variant_3)
            /\ ~navigated =>
                  /\ res.state = call_out.got.state /\ res.report = call_out.got.report
                  /\ res.cbid = "" /\ ~res.fallback
            /\ res.state = "SUCCESS" => res.cbid # ""

\* The navigation timed out, the wait for the attribute timed out as well,
\* and the second URL pattern matched the page source.
C20_Witness ==
    /\ mpc = "discovery returned"
    /\ call_in.nav = "TimeoutException"
    /\ call_in.wait = "TimeoutException"
    /\ ~call_in.variant_2 /\ call_in.variant_3
    /\ call_out.res.state = "SUCCESS"
    /\ call_out.res.fallback

\* C18: the structural checks on the fetched cc.js body run in the order
\* out-of-region marker, domain warning, empty body: a body with both markers
\* is recorded as REGION_BLOCK, a body with the domain warning alone or a body
\* of whitespace as LIBRARY_ERROR, and in these cases the bucket loop is not
\* run and no record is added.
C18_StructuralCheckOrder ==
    (cmp = "cookiebot" /\ doc # NoneVal) =>
        /\ pc = "cb_parse" => doc = "script"
        /\ (pc \in {"returned", "raised"} /\ doc # "script") =>
              /\ pc = "returned"
              /\ upd_calls = 1
              /\ recorded[1] = IF doc \in {"out_of_region", "both_markers"}
                               THEN "REGION_BLOCK" ELSE "LIBRARY_ERROR"
              /\ idx = 1 /\ cookie_count = 0 /\ walked = <<>>
              /\ NoRecordAdded

\* The body fetched for a later site held both markers.
C18_Witness ==
    /\ cmp = "cookiebot"
    /\ pc = "returned"
    /\ doc = "both_markers"
    /\ data_at_call # <<>>

KnownWalked == SelectSeq(walked, LAMBDA w : Len(w) = 2)

WalkRaised ==
    \/ doc = "cookies_not_a_dict"
    \/ \E k \in 1..Len(KnownWalked) : "not_a_dict" \in DOMAIN KnownWalked[k][2]

\* C22: when parse_termly_cookie_json returns, its outcome is a function of
\* three facts: the `cookies` key is absent (MALFORM_RESP), the walk raised
\* (PARSE_ERROR), the number of entries under known category keys is zero
\* (NO_COOKIES, SUCCESS otherwise); an unknown attribute, a missing name or a
\* `category` that differs from the key changes neither the outcome nor the
\* number of records.
C22_TermlyOutcomeFunction ==
    (cmp = "termly" /\ pc = "returned"
        /\ doc \in {"no_cookies_key", "cookies_not_a_dict", "cookies_map"}) =>
        /\ recorded[1] = IF doc = "no_cookies_key" THEN "MALFORM_RESP"
                         ELSE IF WalkRaised THEN "PARSE_ERROR"
                         ELSE IF KnownWalked = <<>> THEN "NO_COOKIES"
                         ELSE "SUCCESS"
        /\ ret = (recorded[1] = "SUCCESS")
        /\ Cardinality(AddedRows) =
              Cardinality({k \in 1..Len(KnownWalked) :
                              "not_a_dict" \notin DOMAIN KnownWalked[k][2]})

\* The only entry read has no name, a `category` that differs from its key
\* and an unknown attribute; the outcome is SUCCESS with one record.
C22_Witness ==
    /\ cmp = "termly"
    /\ pc = "returned"
    /\ recorded[1] = "SUCCESS"
    /\ Len(KnownWalked) = 1
    /\ KnownWalked[1][1] = "analytics"
    /\ "colour" \in DOMAIN KnownWalked[1][2]
    /\ Cardinality(AddedRows) = 1

\* The steps of the Termly extractor, in the order of the code.
TermlySteps == <<"navigate", "find embed id", "fetch policy", "fetch cookies", "parse">>

\* C23: the Termly extractor runs navigate, find embed id, fetch policy
\* document, fetch cookie document, parse in this order, each at most once for
\* a site and without a fallback: the first step that fails fixes the recorded
\* outcome (no embed id: CMP_NOT_FOUND; undecodable policy or cookie JSON:
\* JSON_DECODE_ERROR; failed fetch: the outcome of that fetch) and no step
\* runs after it.
C23_TermlyStepOrder ==
    cmp = "termly" =>
        /\ Len(steps) <= Len(TermlySteps)
        /\ \A i \in 1..Len(steps) :
              /\ steps[i][1] = TermlySteps[i]
              /\ i < Len(steps) => steps[i][2] = "ok"
        /\ (steps # <<>> /\ steps[Len(steps)][2] \notin {"ok", "started"}) =>
              /\ pc \in {"returned", "raised"}
              /\ pc = "returned" => (upd_calls = 1 /\ ~ret /\ recorded[1] # "SUCCESS")
        /\ (pc = "returned" /\ steps # <<>>) =>
              LET last == steps[Len(steps)] IN
              /\ last = <<"find embed id", "TimeoutException">> =>
                    recorded[1] = "CMP_NOT_FOUND"
              /\ last[2] = "undecodable" => recorded[1] = "JSON_DECODE_ERROR"
              /\ last[2] = "fetch failed" =>
                    (doc_fetch \in {"CONN_FAILED", "HTTP_ERROR"} /\ recorded[1] = doc_fetch)

\* The policy was fetched and decoded, and the fetch of the cookie document of
\* a later site failed.
C23_Witness ==
    /\ cmp = "termly"
    /\ pc = "returned"
    /\ Len(steps) = 4
    /\ steps[4] = <<"fetch cookies", "fetch failed">>
    /\ recorded[1] = "HTTP_ERROR"
    /\ data_at_call # <<>>

\* The entries of the rulesets walked by Variant A, in the order of the walk.
RECURSIVE WalkedEntries(_)
WalkedEntries(w) ==
    IF w = <<>> THEN <<>> ELSE w[1][2] \o WalkedEntries(Tail(w))

\* C24: given a non-empty list of ruleset ids, once the loop of
\* variantA_get_and_parse_json has ended, every ruleset was processed, a
\* failing one (fetch failure, undecodable JSON, missing key, culture other
\* than English) included, and Variant A ends with SUCCESS if and only if at
\* least one ruleset yielded at least one cookie, with PARSE_ERROR otherwise.
C24_VariantAOutcome ==
    /\ (cmp = "onetrust" /\ pc = "ot_a3") =>
          /\ Len(walked) = idx - 1
          /\ cookie_count = Len(WalkedEntries(walked))
    /\ (cmp = "onetrust" /\ rs_ids # <<>> /\ idx > Len(rs_ids) /\ pc # "ot_a3") =>
          /\ Len(walked) = Len(rs_ids)
          /\ \A k \in 1..Len(walked) :
                walked[k][1] \in {"fetch failed", "undecodable", "non_english", "KeyError", "end"}
          /\ IF \E k \in 1..Len(walked) : walked[k][2] # <<>>
             THEN /\ pc = "returned" /\ ret /\ recorded[1] = "SUCCESS"
                  /\ upd_calls = 1 /\ ~b_attempted
             ELSE /\ v1 # <<>> /\ v1[1] = "PARSE_ERROR"
                  /\ (pc = "ot_b1" \/ b_attempted)

\* The first ruleset was undecodable, the second yielded a cookie, and the
\* site was recorded as SUCCESS.
C24_Witness ==
    /\ cmp = "onetrust"
    /\ pc = "returned"
    /\ Len(walked) = 2
    /\ walked[1][1] = "undecodable"
    /\ walked[2][2] # <<>>
    /\ recorded[1] = "SUCCESS"

C26_RulesetIds ==
    mpc = "ruleset returned" =>
        LET h == call_in.h
            d == call_in.d
            ids == call_out.ids
            fetched == h.exc = "none" /\ h.status < 400
        IN  /\ call_out.state = "SUCCESS" =>
                  /\ ids # <<>>
                  /\ fetched /\ d.kind = "list"
                  /\ \A k \in 1..Len(ids) :
                        ids[k] \in 1..Len(d.rulesets) /\ d.rulesets[ids[k]] = "en"
                  /\ \A k \in 1..(Len(ids) - 1) : ids[k] < ids[k + 1]
                  /\ \A i \in 1..Len(d.rulesets) :
                        d.rulesets[i] = "en" => \E k \in 1..Len(ids) : ids[k] = i
            /\ call_out.state # "SUCCESS" => ids = <<>>
            /\ (fetched /\ d.kind \in {"no_RuleSet", "null_RuleSet"}) =>
                  call_out.state = "PARSE_ERROR"
            /\ (fetched /\ d.kind = "list"
                  /\ \A i \in 1..Len(d.rulesets) : d.rulesets[i] # "en") =>
                  call_out.state = "PARSE_ERROR"
            /\ ~fetched =>
                  /\ call_out.state = static_get_request(h).state
                  /\ call_out.state \in {"HTTP_ERROR", "SSL_ERROR", "MALFORMED_URL",
                                          "CONN_FAILED", "UNKNOWN"}

\* The list held an English ruleset followed by one of another language.
C26_Witness ==
    /\ mpc = "ruleset returned"
    /\ call_in.d.kind = "list"
    /\ call_in.d.rulesets = <<"en", "other">>
    /\ call_out.ids = <<1>>
    /\ call_out.state = "SUCCESS"

\* The number of opening brackets of a text less the number of closing ones.
Depth(s) ==
    Cardinality({k \in 1..Len(s) : s[k] = "["}) - Cardinality({k \in 1..Len(s) : s[k] = "]"})

\* What holds when variantB_parse_script_for_object has returned.
ScanReturned ==
    LET text == call_out.text IN
    /\ call_out.state \in {"PARSE_ERROR", "UNKNOWN", "SUCCESS"}
    /\ call_out.state \in {"PARSE_ERROR", "UNKNOWN"} => call_out.payload = NoneVal
    /\ call_out.state = "PARSE_ERROR" <=>
          ~\E p \in 1..Len(text), g \in 1..Len(text), b \in 1..Len(text) :
              /\ p < g /\ g < b
              /\ text[p] = "," /\ text[g] = "G" /\ text[b] = "["
              /\ \A k \in (p + 1)..(b - 1) : k # g => text[k] = " "
    /\ call_out.state # "PARSE_ERROR" =>
          LET gs == call_out.group_string
              first == CHOOSE k \in 1..Len(gs) : gs[k] # " " /\ \A j \in 1..(k - 1) : gs[j] = " "
              bracket == CHOOSE k \in 1..Len(gs) : gs[k] = "[" /\ \A j \in 1..(k - 1) : gs[j] # "["
              array == SubSeq(gs, bracket, Len(gs))
          IN  /\ text[call_out.startpoint + 1] = ","
              /\ gs = SubSeq(text, call_out.startpoint + 2, call_out.i)
              /\ gs[first] = "G"
              /\ \A k \in (first + 1)..(bracket - 1) : gs[k] = " "
              /\ call_out.state = "SUCCESS" => call_out.payload = gs
              /\ \A k \in 1..(Len(array) - 1) : Depth(SubSeq(array, 1, k)) > 0
              /\ IF call_out.open_brackets = 0
                 THEN /\ gs[Len(gs)] = "]"
                      /\ Depth(array) = 0
                 ELSE /\ call_out.i = Len(text)
                      /\ Depth(array) > 0

\* C27: the call of variantB_parse_script_for_object ends for every script
\* body, also when the array is never closed; when a closing bracket brings
\* the depth back to zero the extracted text runs from the Groups key up to
\* and including exactly that bracket, so that the array in it is balanced; a
\* body without the marker gives PARSE_ERROR and an exception of the
\* evaluation gives UNKNOWN, both without a payload.
C27_BracketScan ==
    /\ <>(mpc \in {"script returned", "script raised"})
    /\ [](mpc = "script returned" => ScanReturned)

\* The array held a nested array and was closed.
C27_Witness ==
    /\ mpc = "script returned"
    /\ call_out.state = "SUCCESS"
    /\ call_out.text = <<",", "G", "[", "[", "]", "]">>
    /\ call_out.payload = <<"G", "[", "[", "]", "]">>

\* C28: when the crawl loop of an uninterrupted run has ended, every site of
\* the input set was popped and passed to scrape_website, and the success
\* count plus the failure count equals the number of input sites.
C28_EverySiteCrawled ==
    mpc \in {"done", "crashed"} =>
        /\ sites = {}
        /\ comp_succ + comp_fail = total

\* The sum of the counters of the outcomes in S.
RECURSIVE SumCounts(_, _)
SumCounts(f, S) ==
    IF S = {} THEN 0
    ELSE LET e == CHOOSE x \in S : TRUE IN f[e] + SumCounts(f, S \ {e})

\* The statistics between and during the calls of scrape_website.
StatsConsistent ==
    /\ SumCounts(status_counts, CrawlState) = comp_succ + comp_fail + upd_calls
    /\ Len(failed_urls) = SumCounts(status_counts, CrawlState \ {"SUCCESS"})
    /\ pc = "returned" => (upd_calls = 1 /\ (ret <=> recorded[1] = "SUCCESS"))
    /\ mpc \in {"loop", "done", "crashed"} =>
          /\ comp_succ = status_counts["SUCCESS"]
          /\ comp_fail = Len(failed_urls)

\* One step of the run: a recorded outcome adds one to its counter alone, and
\* the URL to the failed-URL list unless the outcome is SUCCESS; any other
\* step leaves counters and list as they are.
StatsStep ==
    IF upd_calls' = upd_calls + 1
    THEN /\ status_counts' = [status_counts EXCEPT ![recorded'[1]] = @ + 1]
         /\ failed_urls' = IF recorded'[1] = "SUCCESS" THEN failed_urls
                            ELSE Append(failed_urls, url)
    ELSE /\ status_counts' = status_counts
         /\ failed_urls' = failed_urls

\* C29: after any sequence of scrape_website calls the sum of the counters
\* equals the number of recorded outcomes, the failed-URL list holds one entry
\* per recorded outcome other than SUCCESS and none for SUCCESS, no counter
\* ever decreases, and scrape_website returned true exactly for the calls that
\* recorded SUCCESS, so that between calls comp_succ is the SUCCESS counter
\* and comp_fail the length of the failed-URL list.
C29_StatsConsistent ==
    /\ []StatsConsistent
    /\ [][StatsStep]_vars

\* Between two calls, after one site was recorded as SUCCESS and one with
\* another outcome.
C29_Witness ==
    /\ mpc = "loop"
    /\ comp_succ = 1 /\ comp_fail = 1
    /\ status_counts["SUCCESS"] = 1
    /\ Len(failed_urls) = 1

\* What the calls of the four webdriver methods ended with.
LifecycleCalls ==
    \A k \in 1..Len(calls) :
        LET c == calls[k] IN
        /\ c.before \in {"stopped", "running"} /\ c.after \in {"stopped", "running"}
        /\ c.op = "start_webdriver" =>
              /\ c.raised = NoneVal <=> c.before = "stopped"
              /\ c.after = "running"
        /\ c.op = "stop_webdriver" =>
              /\ c.raised = NoneVal <=> c.before = "running"
              /\ c.after = "stopped"
        /\ c.raised # NoneVal => c.after = c.before
        /\ c.op \in {"driver_get", "driver_get_current_pagesource"} =>
              /\ c.before = "stopped" => c.raised = "RuntimeError"
              /\ c.after = c.before

\* The session while main runs and after its loop has ended.
RunSession ==
    /\ mpc = "start" => webdriver = "stopped"
    /\ mpc \in {"loop", "crawl"} => webdriver = "running"
    /\ mpc \in {"done", "cancelled", "crashed"} => webdriver = "stopped"

\* In a run of main the session is started by the step that enters the loop
\* and stopped by the step that ends it, and by no other step.
RunStopsOnce ==
    mpc # "webdriver" =>
        /\ (webdriver = "stopped" /\ webdriver' = "running") =>
              (mpc = "start" /\ mpc' = "loop")
        /\ (webdriver = "running" /\ webdriver' = "stopped") =>
              (mpc \in {"loop", "crawl"} /\ mpc' \in {"done", "cancelled", "crashed"})
        /\ mpc \in {"done", "cancelled", "crashed"} => mpc' = mpc

\* C30: the session is stopped or running; start_webdriver succeeds only
\* from stopped and stop_webdriver only from running, each raising and leaving
\* the state as it is otherwise; driver_get and driver_get_current_pagesource
\* raise when the session is stopped; in a run of main the session is running
\* during every call of scrape_website and is stopped exactly once, before the
\* reports are written, whether the loop ended normally, by a user
\* interruption or by an exception.
C30_WebdriverLifecycle ==
    /\ [](webdriver \in {"stopped", "running"})
    /\ [](mpc = "webdriver" => LifecycleCalls)
    /\ [](mpc # "webdriver" => RunSession)
    /\ [][RunStopsOnce]_vars

\* start_webdriver was called twice and then stop_webdriver twice: the second
\* call of each raised.
C30_Witness ==
    /\ mpc = "webdriver"
    /\ Len(calls) = 4
    /\ calls[1].op = "start_webdriver" /\ calls[1].raised = NoneVal
    /\ calls[2].op = "start_webdriver" /\ calls[2].raised = "RuntimeError"
    /\ calls[3].op = "stop_webdriver" /\ calls[3].raised = NoneVal
    /\ calls[4].op = "stop_webdriver" /\ calls[4].raised = "RuntimeError"
    /\ webdriver = "stopped"
====
